---- MODULE Spec2Model ----
(***************************************************************************)
(* Snap: checkpoint/restore cache for Kubernetes pods.                     *)
(*                                                                         *)
(* The module models, from the Python sources,                             *)
(*   - the image reference codec        (SnapApi/src/classes/imagetag.py)  *)
(*   - the registry existence oracle    (SnapApi/src/flows/helpers.py,     *)
(*                                       SnapApi/src/routes/pod.py)        *)
(*   - the admission mutation decision  (SnapApi/src/classes/snaphook.py,  *)
(*                                       SnapHook/src/webhook.py)          *)
(*   - the checkpoint-and-push pipeline                                    *)
(*                       (SnapApi/src/flows/checkpoint_and_push_combined)  *)
(*   - the operator event filter        (SnapWatcher/src/operator.py,      *)
(*                             SnapApi/src/classes/operator_watcher.py)    *)
(*                                                                         *)
(* Python strings are sequences of one-character strings, so that          *)
(* lower(), strip() and concatenation are computed, not assumed.           *)
(***************************************************************************)
EXTENDS Integers, Sequences, FiniteSets, TLC

VARIABLES
    \* ---- operator event filter ----
    alreadyCheckpointed,   \* SnapWatcher/src/operator.py: _ALREADY_CHECKPOINTED
    watcherCalls,          \* uid -> checkpoint requests sent by SnapWatcher on_pod_event
    operatorCalls,         \* uid -> pipeline invocations by SnapWatcherOperator.handle_pod_event
    deletedPods,           \* uids for which handle_pod_event issued delete_pod
    lastEvt,               \* the event handled last, with the handler's decision
    nEvents,               \* events delivered so far
    operator,              \* classes/operator_watcher.py: the global operator instance
    \* ---- admission mutation decision ----
    admReq,                \* the AdmissionReview request handled last
    admResp,               \* the response produced for it
    admOracle,             \* the oracle queries made while handling it
    admCall,               \* the handler's position among its external calls
    \* ---- registry existence oracle ----
    orcIn,                 \* the 7-tuple and probe outcomes of the oracle call
    orcOut,                \* its result
    codec,                 \* classes/imagetag.py: one generate, parse or round trip
    resolver,              \* flows/helpers.py: one call of extract_digest
    detect,                \* routes/pod.py: the existence checks of one process, in order
    \* ---- configuration store and control plane ----
    cfgStore,              \* config/clusters, config/registry, config/clusterCache
    cfgRes,                \* the configuration request handled last and its response
    inflight,              \* handle_pod_event invocations suspended at the pipeline await
    stream,                \* the pod event the watch stream carried last, with its labels
    ctl,                   \* routes/operator.py: module globals, kopf threads, config/watcher
    hooks,                 \* classes/shared_https_server.py: hook_handlers, the last POST
    \* ---- pipeline and admission on one pod template ----
    tmpl,                  \* the pod template and the configuration
    registry,              \* image references pushed to the registry
    pipeRes,               \* the pipeline invocation: position, commands run, result
    admitRes,              \* result of the admission of a replacement pod
    entryRes               \* the call of one of the other pipeline entry points

filterVars == <<alreadyCheckpointed, watcherCalls, operatorCalls, deletedPods, lastEvt, nEvents, operator>>
admVars    == <<admReq, admResp, admOracle>>
storeVars  == <<cfgStore, cfgRes>>
ctlVars    == <<storeVars, inflight, stream, ctl, hooks>>
orcVars    == <<orcIn, orcOut, codec, resolver, detect, ctlVars>>
cacheVars  == <<tmpl, registry, pipeRes, admitRes, entryRes>>
vars       == <<filterVars, admVars, admCall, orcVars, cacheVars>>

-----------------------------------------------------------------------------
(* Python str operations over sequences of characters                      *)

UpperAlpha == <<"A","B","C","D","E","F","G","H","I","J","K","L","M",
                "N","O","P","Q","R","S","T","U","V","W","X","Y","Z">>
LowerAlpha == <<"a","b","c","d","e","f","g","h","i","j","k","l","m",
                "n","o","p","q","r","s","t","u","v","w","x","y","z">>
DigitChars == {"0","1","2","3","4","5","6","7","8","9"}
UpperChars == {UpperAlpha[i] : i \in 1..26}
LowerChars == {LowerAlpha[i] : i \in 1..26}
Whitespace == {" "}

\* Python evaluates the arguments of a call once, before the body runs
Call1(F(_), a) == CHOOSE r \in {F(x) : x \in {a}} : TRUE
Call2(F(_, _), a, b) == CHOOSE r \in {F(x, y) : x \in {a}, y \in {b}} : TRUE

\* str.lower() on one character
LowerChar(c) ==
    IF c \in UpperChars
    THEN LowerAlpha[CHOOSE i \in 1..26 : UpperAlpha[i] = c]
    ELSE c

\* str.lower()
Lower(s) == Call1(LAMBDA v : [i \in 1..Len(v) |-> LowerChar(v[i])], s)

\* str.isalnum() on one character
IsAlnumChar(c) == c \in UpperChars \cup LowerChars \cup DigitChars

\* str.strip(): drop leading and trailing whitespace
Strip(s) ==
    Call1(LAMBDA v :
            Call1(LAMBDA keep :
                    IF keep = {} THEN <<>>
                    ELSE SubSeq(v, CHOOSE i \in keep : \A j \in keep : i <= j,
                                   CHOOSE i \in keep : \A j \in keep : j <= i),
                  {i \in 1..Len(v) : v[i] \notin Whitespace}),
          s)

\* s[:n]
Prefix(s, n) == Call1(LAMBDA v : SubSeq(v, 1, IF Len(v) < n THEN Len(v) ELSE n), s)

\* s.find(sub): 1-based index of the first occurrence, 0 if none
Find(s, sub) ==
    Call2(LAMBDA v, w :
            Call1(LAMBDA hits :
                    IF hits = {} THEN 0 ELSE CHOOSE i \in hits : \A j \in hits : i <= j,
                  {i \in 1..(Len(v) - Len(w) + 1) : SubSeq(v, i, i + Len(w) - 1) = w}),
          s, sub)

\* s.rfind(sub): 1-based index of the last occurrence, 0 if none
RFind(s, sub) ==
    Call2(LAMBDA v, w :
            Call1(LAMBDA hits :
                    IF hits = {} THEN 0 ELSE CHOOSE i \in hits : \A j \in hits : j <= i,
                  {i \in 1..(Len(v) - Len(w) + 1) : SubSeq(v, i, i + Len(w) - 1) = w}),
          s, sub)

\* sub in s
Contains(s, sub) == Find(s, sub) # 0

\* s.startswith(sub)
StartsWith(s, sub) ==
    Call2(LAMBDA v, w : Len(v) >= Len(w) /\ SubSeq(v, 1, Len(w)) = w, s, sub)

\* s.split(sub, 1)[-1]: what follows the first occurrence, or s itself
AfterFirst(s, sub) ==
    Call2(LAMBDA v, i : IF i = 0 THEN v ELSE SubSeq(v, i + Len(sub), Len(v)),
          s, Find(s, sub))

\* s.split(sub)[-1]: what follows the last occurrence, or s itself
AfterLast(s, sub) ==
    Call2(LAMBDA v, i : IF i = 0 THEN v ELSE SubSeq(v, i + Len(sub), Len(v)),
          s, RFind(s, sub))

\* s.split(c): the pieces between occurrences of the character c
RECURSIVE Split(_, _)
Split(s, c) ==
    Call1(LAMBDA v :
            Call1(LAMBDA i :
                    IF i = 0 THEN <<v>>
                    ELSE <<SubSeq(v, 1, i - 1)>> \o Split(SubSeq(v, i + 1, Len(v)), c),
                  Find(v, <<c>>)),
          s)

\* c.join(parts)
RECURSIVE Join(_, _)
Join(parts, c) ==
    Call1(LAMBDA ps :
            IF Len(ps) = 0 THEN <<>>
            ELSE IF Len(ps) = 1 THEN ps[1]
            ELSE ps[1] \o <<c>> \o Join(Tail(ps), c),
          parts)

\* literals
Slash  == <<"/">>
Colon  == <<":">>
Dash   == <<"-">>
At     == <<"@">>
Sha256 == <<"s","h","a","2","5","6",":">>
Unknown == <<"u","n","k","n","o","w","n">>
UnknownApp == <<"u","n","k","n","o","w","n","-","a","p","p">>
DefaultNs == <<"d","e","f","a","u","l","t">>

-----------------------------------------------------------------------------
(* Image reference codec: classes/imagetag.py                              *)

\* ImageTagComponents.validate_components on one field: raises on the empty
\* string, otherwise the stripped value
ValidateComponent(v) == Call1(LAMBDA x : [err |-> x = <<>>, val |-> Strip(x)], v)

\* generate_tag with the two halves of the tag part exchanged
GenerateTagHashFirst(components) ==
    Call1(LAMBDA c :
            LET repo_path  == Lower(c.cluster \o Dash \o c.namespace \o Dash \o c.app)
                image_part == c.registry \o Slash \o c.repo \o Slash \o repo_path
                tag_part   == c.hash \o Dash \o c.digest
            IN  image_part \o Colon \o tag_part,
          components)

\* ImageTagParser.generate_tag on validated components
GenerateTag(components) ==
    Call1(LAMBDA c :
            LET repo_path  == Lower(c.cluster \o Dash \o c.namespace \o Dash \o c.app)
                image_part == c.registry \o Slash \o c.repo \o Slash \o repo_path
                tag_part   == c.digest \o Dash \o c.hash
            IN  image_part \o Colon \o tag_part,
          components)

\* generate_image_tag lower-casing the whole tag
GenerateImageTagLowerAll(registry_, repo, cluster, namespace, app, digest, hash) ==
    Call1(LAMBDA v :
            IF \E i \in 1..7 : v[i].err
            THEN [err |-> TRUE, val |-> <<>>]
            ELSE [err |-> FALSE,
                  val |-> Lower(GenerateTag([registry |-> v[1].val, repo |-> v[2].val,
                                             cluster |-> v[3].val, namespace |-> v[4].val,
                                             app |-> v[5].val, digest |-> v[6].val,
                                             hash |-> v[7].val]))],
          <<ValidateComponent(registry_), ValidateComponent(repo),
            ValidateComponent(cluster), ValidateComponent(namespace),
            ValidateComponent(app), ValidateComponent(digest),
            ValidateComponent(hash)>>)

\* generate_image_tag(registry, repo, cluster, namespace, app, digest, hash):
\* builds ImageTagComponents (validation) and generates the tag
generate_image_tag(registry_, repo, cluster, namespace, app, digest, hash) ==
    Call1(LAMBDA v :
            IF \E i \in 1..7 : v[i].err
            THEN [err |-> TRUE, val |-> <<>>]
            ELSE [err |-> FALSE,
                  val |-> GenerateTag([registry |-> v[1].val, repo |-> v[2].val,
                                       cluster |-> v[3].val, namespace |-> v[4].val,
                                       app |-> v[5].val, digest |-> v[6].val,
                                       hash |-> v[7].val])],
          <<ValidateComponent(registry_), ValidateComponent(repo),
            ValidateComponent(cluster), ValidateComponent(namespace),
            ValidateComponent(app), ValidateComponent(digest),
            ValidateComponent(hash)>>)

\* the seven fields of ImageTagComponents
ComponentNames == {"registry", "repo", "cluster", "namespace", "app", "digest", "hash"}

NoComponents ==
    [registry |-> <<>>, repo |-> <<>>, cluster |-> <<>>, namespace |-> <<>>,
     app |-> <<>>, digest |-> <<>>, hash |-> <<>>]

\* ImageTagComponents(...) at lines 129-137 and 185-193: every field goes
\* through validate_components; one failure raises
ImageTagComponents(c) ==
    Call1(LAMBDA v :
            IF \E f \in ComponentNames : v[f].err
            THEN [err |-> TRUE, val |-> NoComponents]
            ELSE [err |-> FALSE, val |-> [f \in ComponentNames |-> v[f].val]],
          [f \in ComponentNames |-> ValidateComponent(c[f])])

\* parse_tag splitting at the first ':'
ParseTagFirstColon(image_tag) ==
    Call1(LAMBDA t :
        LET colon_index == Find(t, Colon)
            image_part  == SubSeq(t, 1, colon_index - 1)
            tag_part    == SubSeq(t, colon_index + 1, Len(t))
            image_components == Split(image_part, "/")
            n  == Len(image_components)
            cluster_namespace_app_components == Split(image_components[n], "-")
            k  == Len(cluster_namespace_app_components)
            tag_components == Split(tag_part, "-")
            m  == Len(tag_components)
            failed == [err |-> TRUE, val |-> NoComponents]
        IN  IF t = <<>> THEN failed
            ELSE IF colon_index = 0 THEN failed
            ELSE IF image_part = <<>> \/ tag_part = <<>> THEN failed
            ELSE IF n < 3 THEN failed
            ELSE IF k < 3 THEN failed
            ELSE IF m < 2 THEN failed
            ELSE ImageTagComponents(
                    [registry  |-> Join(SubSeq(image_components, 1, n - 2), "/"),
                     repo      |-> image_components[n - 1],
                     cluster   |-> Join(SubSeq(cluster_namespace_app_components, 1, k - 2), "-"),
                     namespace |-> cluster_namespace_app_components[k - 1],
                     app       |-> cluster_namespace_app_components[k],
                     digest    |-> Join(SubSeq(tag_components, 1, m - 1), "-"),
                     hash      |-> tag_components[m]]),
          image_tag)

\* parse_tag without the check of line 79: rfind's -1 is used as an index
ParseTagNoColonCheck(image_tag) ==
    Call1(LAMBDA t :
        LET colon_index == RFind(t, Colon)
            image_part  == IF colon_index = 0 THEN SubSeq(t, 1, Len(t) - 1)
                           ELSE SubSeq(t, 1, colon_index - 1)
            tag_part    == SubSeq(t, colon_index + 1, Len(t))
            image_components == Split(image_part, "/")
            n  == Len(image_components)
            cluster_namespace_app_components == Split(image_components[n], "-")
            k  == Len(cluster_namespace_app_components)
            tag_components == Split(tag_part, "-")
            m  == Len(tag_components)
            failed == [err |-> TRUE, val |-> NoComponents]
        IN  IF t = <<>> THEN failed
            ELSE IF image_part = <<>> \/ tag_part = <<>> THEN failed
            ELSE IF n < 3 THEN failed
            ELSE IF k < 3 THEN failed
            ELSE IF m < 2 THEN failed
            ELSE ImageTagComponents(
                    [registry  |-> Join(SubSeq(image_components, 1, n - 2), "/"),
                     repo      |-> image_components[n - 1],
                     cluster   |-> Join(SubSeq(cluster_namespace_app_components, 1, k - 2), "-"),
                     namespace |-> cluster_namespace_app_components[k - 1],
                     app       |-> cluster_namespace_app_components[k],
                     digest    |-> Join(SubSeq(tag_components, 1, m - 1), "-"),
                     hash      |-> tag_components[m]]),
          image_tag)

\* ImageTagParser.parse_tag, lines 58-139: the components, or a ValueError
parse_tag(image_tag) ==
    Call1(LAMBDA t :
        LET colon_index == RFind(t, Colon)                      \* line 78, 0: not found
            image_part  == SubSeq(t, 1, colon_index - 1)        \* line 82
            tag_part    == SubSeq(t, colon_index + 1, Len(t))   \* line 83
            image_components == Split(image_part, "/")          \* line 89
            n  == Len(image_components)
            cluster_namespace_app_components == Split(image_components[n], "-")   \* line 106
            k  == Len(cluster_namespace_app_components)
            tag_components == Split(tag_part, "-")              \* line 116
            m  == Len(tag_components)
            failed == [err |-> TRUE, val |-> NoComponents]
        IN  IF t = <<>> THEN failed                                     \* line 73
            ELSE IF colon_index = 0 THEN failed                         \* line 79
            ELSE IF image_part = <<>> \/ tag_part = <<>> THEN failed    \* line 85
            ELSE IF n < 3 THEN failed                                   \* line 90
            ELSE IF k < 3 THEN failed                                   \* line 107
            ELSE IF m < 2 THEN failed                                   \* line 117
            ELSE ImageTagComponents(
                    [registry  |-> Join(SubSeq(image_components, 1, n - 2), "/"),
                     repo      |-> image_components[n - 1],
                     cluster   |-> Join(SubSeq(cluster_namespace_app_components, 1, k - 2), "-"),
                     namespace |-> cluster_namespace_app_components[k - 1],
                     app       |-> cluster_namespace_app_components[k],
                     digest    |-> Join(SubSeq(tag_components, 1, m - 1), "-"),
                     hash      |-> tag_components[m]]),
          image_tag)

\* component values the codec is exercised with
CodecTuples ==
    [registry  : {<<"R","e","g">>, <<" ">>},
     repo      : {<<"R","e","p","o">>, <<>>},
     cluster   : {<<"C">>, <<"c">>, <<"c","-","x">>, <<" ","c">>},
     namespace : {<<"N">>, <<"n">>},
     app       : {<<"A">>, <<"a">>, <<"a","-","b">>, <<" ">>},
     digest    : {<<"d","1">>, <<"D","1">>, <<"d","-","1">>},
     hash      : {<<"h","1">>, <<>>, <<"h","-","1">>}]

\* the example tag of the parse documentation
ExampleTag == <<"r","e","g",".","i","o",":","5","0","0","0","/","r","e","p","o","/","c","r","c","-","d","e","f","a","u","l","t","-","a","p","p",":","a","b","c","d","e","f","1","2","3","4","5","6","-","5","f","9","c","8","d">>

\* image parts and tag parts of the strings parse_tag is exercised with
ParseImageParts ==
    LET registries == {<<"r">>, <<"r",":","5">>, <<"a","/","b">>}
        thirds == {<<"c","-","n","-","a">>, <<"c","-","x","-","n","-","a">>, <<"n","-","a">>,
                   <<"c","-","n","-">>, <<"c","-","n","-"," ","a">>, <<"a">>}
    IN  {reg \o Slash \o <<"p">> \o Slash \o third : reg \in registries, third \in thirds}
        \cup {<<"p">> \o Slash \o third : third \in thirds}
        \cup thirds \cup {<<>>}
ParseTagParts ==
    {<<":","d","-","h">>, <<":","d","-","e","-","h">>, <<":","h">>, <<>>, <<":">>,
     <<":","d","-">>}
CodecTags == {i \o t : i \in ParseImageParts, t \in ParseTagParts} \cup {ExampleTag}

NoCodecCall ==
    [op |-> "none", c |-> NoComponents, image_tag |-> <<>>,
     generated |-> [err |-> FALSE, val |-> <<>>],
     parsed |-> [err |-> FALSE, val |-> NoComponents]]

\* generate_image_tag(...), lines 178-197
GenerateImageTag ==
    /\ codec.op = "none"
    /\ \E c \in CodecTuples :
        \E gen \in {generate_image_tag(c.registry, c.repo, c.cluster, c.namespace,
                                       c.app, c.digest, c.hash)} :
            codec' = [NoCodecCall EXCEPT !.op = "generate", !.c = c, !.generated = gen,
                                         !.image_tag = gen.val]
    /\ UNCHANGED <<orcIn, orcOut, resolver, detect, ctlVars, admCall, filterVars, admVars, cacheVars>>

\* parse_tag on the tag generate_image_tag returned
ParseGeneratedTag ==
    /\ codec.op = "generate"
    /\ ~codec.generated.err
    /\ \E res \in {parse_tag(codec.generated.val)} :
            codec' = [codec EXCEPT !.op = "round_trip", !.parsed = res]
    /\ UNCHANGED <<orcIn, orcOut, resolver, detect, ctlVars, admCall, filterVars, admVars, cacheVars>>

\* parse_image_tag(image_tag), lines 200-211 -> parse_tag
ParseImageTag ==
    /\ codec.op = "none"
    /\ \E image_tag \in CodecTags :
        \E res \in {parse_tag(image_tag)} :
            codec' = [NoCodecCall EXCEPT !.op = "parse", !.image_tag = image_tag,
                                         !.parsed = res]
    /\ UNCHANGED <<orcIn, orcOut, resolver, detect, ctlVars, admCall, filterVars, admVars, cacheVars>>

-----------------------------------------------------------------------------
(* Registry existence oracle                                               *)

\* what the registry (or the transport) answers to one existence probe
Replies == {"200", "404", "429", "500", "refused"}

\* helpers.py check_image_exists_multi_registry, lines 285-294: the image
\* reference handed to "skopeo inspect docker://..."
HelpersImageRef(registry_host, repo, cluster, namespace, app, digest, pod_hash) ==
    LET image_path == Lower(cluster \o Dash \o namespace \o Dash \o app)
        tag        == Lower(digest \o Dash \o pod_hash)
    IN  IF repo # <<>>
        THEN registry_host \o Slash \o repo \o Slash \o image_path \o Colon \o tag
        ELSE registry_host \o Slash \o image_path \o Colon \o tag

\* helpers.py lines 299-315: stored credential, then environment, then none
HelpersCreds(stored, env) ==
    IF stored \in {"user", "pass", "both"} THEN "stored"
    ELSE IF env = "set" THEN "env"
    ELSE "anonymous"

\* routes/pod.py lines 460-462: the environment credential, or none; the
\* registry configuration files are not read. stored: the credential the
\* configuration holds for the host
PodCreds(stored, env) == IF env = "set" THEN "env" ELSE "anonymous"

\* skopeo inspect exits 0 only when the manifest was fetched
SkopeoExit(reply) == IF reply = "200" THEN 0 ELSE 1

\* helpers.py lines 298-337 without the except clause: a failing run()
\* escapes to the caller
HelpersExistsNoExcept(reply, runRaises) ==
    [result |-> SkopeoExit(reply) = 0 \/ runRaises,
     raised |-> SkopeoExit(reply) # 0 /\ runRaises]

\* helpers.py lines 323-337: run() either returns the completed process or
\* raises on a non-zero exit; both end in False, only exit code 0 in True
HelpersExists(reply, runRaises) ==
    IF SkopeoExit(reply) # 0 /\ runRaises
    THEN [result |-> FALSE, raised |-> FALSE]               \* except Exception: return False
    ELSE [result |-> SkopeoExit(reply) = 0, raised |-> FALSE]  \* result.returncode == 0

\* routes/pod.py _check_image_exists_multi_registry, lines 464-466: image path
\* and tag are used as given
PodImageRef(registry_host, repo, cluster, namespace, app, digest, pod_hash) ==
    LET image_path == cluster \o Dash \o namespace \o Dash \o app
        tag        == digest \o Dash \o pod_hash
    IN  registry_host \o Slash \o repo \o Slash \o image_path \o Colon \o tag

RegistryTypes == {"nexus", "harbor", "jfrog", "dockerhub", "docker-registry"}

\* routes/pod.py: length of urls_to_try in the per-flavor check
UrlsToTry(registry_type) ==
    IF registry_type \in {"nexus", "harbor", "jfrog"} THEN 4 ELSE 2

\* routes/pod.py _check_image_exists_<flavor>: the URLs are tried in order,
\* the first "200" returns True, an exception moves on to the next URL
PodExists(registry_type, replies) ==
    \E i \in 1..UrlsToTry(registry_type) : replies[i] = "200"

\* existence checks made by one process
MaxChecks == 2

\* routes/pod.py lines 231-266: the status endpoints probed, in order
TestEndpoints ==
    <<"nexus", "nexus", "nexus", "harbor", "harbor", "harbor",
      "jfrog", "jfrog", "jfrog", "docker-registry", "docker-registry">>

DockerHubHosts == {<<"d","o","c","k","e","r",".","i","o">>}

\* routes/pod.py _detect_registry_type, lines 217-294; first_valid: the
\* first endpoint that answers 200, 401 or 403 (0: none does). The flavor
\* and the number of probes sent
DetectRegistryType(registry_host, first_valid) ==
    IF Lower(registry_host) \in DockerHubHosts
    THEN [type |-> "dockerhub", probes |-> 0]                    \* lines 269-270
    ELSE IF first_valid = 0
    THEN [type |-> "docker-registry", probes |-> Len(TestEndpoints)]   \* line 293
    ELSE [type |-> TestEndpoints[first_valid], probes |-> first_valid]

\* the registry hosts the process checks
DetectHosts == {<<"R","e","g">>} \cup DockerHubHosts

\* one more existence check of the process (lines 455-490): the flavor is
\* detected at every call (line 477), nothing of the calls before is kept
CheckImageExistsMultiRegistry ==
    /\ Len(detect) < MaxChecks
    /\ \E registry_host \in DetectHosts :
        \E first_valid \in IF registry_host \in DockerHubHosts THEN {0}
                            ELSE 0..Len(TestEndpoints) :
         \E d \in {DetectRegistryType(registry_host, first_valid)} :
            detect' = Append(detect, [host |-> registry_host, type |-> d.type,
                                      probes |-> d.probes])
    /\ UNCHANGED <<orcIn, orcOut, codec, resolver, ctlVars, admCall, filterVars, admVars, cacheVars>>

NoOracleCall ==
    [impl |-> "none", ref |-> <<>>, result |-> FALSE, raised |-> FALSE]

NoOracleInput ==
    [host |-> <<>>, repo |-> <<>>, cluster |-> <<>>, namespace |-> <<>>, app |-> <<>>,
     digest |-> <<>>, hash |-> <<>>, replies |-> <<>>, creds |-> "none",
     stored |-> "none", env |-> "unset"]

\* the inputs the oracle is exercised with
OrcHosts    == { <<"R","e","g">> }
OrcRepos    == { <<"R","e","p","o">>, <<" ","r">>, <<>> }
OrcClusters == { <<"C">>, <<"c">> }
OrcNs       == { <<"N">> }
OrcApps     == { <<"A">>, <<"a">> }
OrcDigests  == { <<"d","1">> }
OrcHashes   == { <<"h","1">>, <<"H","1">> }

\* helpers.py: check_image_exists_multi_registry as one call
CheckImageExistsHelpers ==
    /\ orcOut.impl = "none"
    /\ \E host \in OrcHosts, repo \in OrcRepos, cluster \in OrcClusters, ns \in OrcNs,
       app \in OrcApps, digest \in OrcDigests, hash \in OrcHashes,
       reply \in Replies, runRaises \in BOOLEAN,
       stored \in {"none", "empty", "user", "pass", "both"}, env \in {"set", "unset"} :
        /\ orcIn' = [host |-> host, repo |-> repo, cluster |-> cluster, namespace |-> ns,
                     app |-> app, digest |-> digest, hash |-> hash,
                     replies |-> <<reply>>, creds |-> HelpersCreds(stored, env),
                     stored |-> stored, env |-> env]
        /\ orcOut' = [impl |-> "helpers",
                      ref |-> HelpersImageRef(host, repo, cluster, ns, app, digest, hash),
                      result |-> HelpersExists(reply, runRaises).result,
                      raised |-> HelpersExists(reply, runRaises).raised]
        /\ UNCHANGED <<codec, resolver, detect, ctlVars, admCall, filterVars, admVars, cacheVars>>

\* routes/pod.py: _check_image_exists_multi_registry as one call
CheckImageExistsPod ==
    /\ orcOut.impl = "none"
    /\ \E host \in OrcHosts, repo \in OrcRepos, cluster \in OrcClusters, ns \in OrcNs,
       app \in OrcApps, digest \in OrcDigests, hash \in OrcHashes,
       registry_type \in RegistryTypes, env \in {"set", "unset"},
       stored \in {"none", "both"} :
      \E replies \in [1..UrlsToTry(registry_type) -> Replies] :
        /\ orcIn' = [host |-> host, repo |-> repo, cluster |-> cluster, namespace |-> ns,
                     app |-> app, digest |-> digest, hash |-> hash,
                     replies |-> replies,
                     creds |-> PodCreds(stored, env),
                     stored |-> stored, env |-> env]
        /\ orcOut' = [impl |-> "pod",
                      ref |-> PodImageRef(host, repo, cluster, ns, app, digest, hash),
                      result |-> PodExists(registry_type, replies),
                      raised |-> FALSE]
        /\ UNCHANGED <<codec, resolver, detect, ctlVars, admCall, filterVars, admVars, cacheVars>>

-----------------------------------------------------------------------------
(* Pod facts: app name and digest (flows/helpers.py)                       *)

\* optional values: dict.get() yielding None, or a string
None    == <<>>
Some(v) == <<v>>
IsNone(o) == o = <<>>
\* Python truthiness of an optional string: neither None nor ""
Truthy(o) == o # <<>> /\ o[1] # <<>>
\* dict.get(key, default)
GetOr(o, default) == IF IsNone(o) THEN default ELSE o[1]

AllAlnum(s) == \A i \in 1..Len(s) : IsAlnumChar(s[i])

\* the tail of a match of  [a-zA-Z0-9]{8,10}(-[a-zA-Z0-9]{5})?$
MatchesHashSuffix(rest) ==
    LET n == Len(rest)
    IN  \/ n \in 8..10 /\ AllAlnum(rest)
        \/ \E k \in 8..10 :
              /\ n = k + 6
              /\ AllAlnum(SubSeq(rest, 1, k))
              /\ rest[k + 1] = "-"
              /\ AllAlnum(SubSeq(rest, k + 2, n))

\* the tail of a match of  [a-zA-Z0-9]{8,}$
MatchesLongHash(rest) == Len(rest) >= 8 /\ AllAlnum(rest)

\* re.sub(r'-[a-zA-Z0-9]{8,10}(-[a-zA-Z0-9]{5})?$', '', s): the leftmost match
\* is removed
StripHashSuffix(s) ==
    Call1(LAMBDA v :
            Call1(LAMBDA hits :
                    IF hits = {} THEN v
                    ELSE SubSeq(v, 1, (CHOOSE i \in hits : \A j \in hits : i <= j) - 1),
                  {i \in 1..Len(v) : v[i] = "-" /\ MatchesHashSuffix(SubSeq(v, i + 1, Len(v)))}),
          s)

\* re.sub(r'-[a-zA-Z0-9]{8,}$', '', s)
StripLongHash(s) ==
    Call1(LAMBDA v :
            Call1(LAMBDA hits :
                    IF hits = {} THEN v
                    ELSE SubSeq(v, 1, (CHOOSE i \in hits : \A j \in hits : i <= j) - 1),
                  {i \in 1..Len(v) : v[i] = "-" /\ MatchesLongHash(SubSeq(v, i + 1, Len(v)))}),
          s)

\* helpers.py line 261: len(part) >= 5 and part.isalnum() and any digit
HashLike(part) ==
    /\ Len(part) >= 5
    /\ AllAlnum(part)
    /\ \E i \in 1..Len(part) : part[i] \in DigitChars

\* helpers.py lines 257-267: the parts before the first hash-like part, the
\* first two of them joined by '-'
MeaningfulParts(s) ==
    Call1(LAMBDA parts :
            Call1(LAMBDA hash :
                    Call1(LAMBDA kept :
                            Join(SubSeq(kept, 1, IF Len(kept) < 2 THEN Len(kept) ELSE 2), "-"),
                          SubSeq(parts, 1,
                                 IF hash = {} THEN Len(parts)
                                 ELSE (CHOOSE i \in hash : \A j \in hash : i <= j) - 1)),
                  {i \in 1..Len(parts) : HashLike(parts[i])}),
          Split(s, "-"))

\* helpers.py extract_app_name_from_pod, lines 221-277: the labels in
\* priority order, then the pod name with its hash suffixes removed
extract_app_name_from_pod(pod_name, labels) ==
    LET fromLabels ==
            IF Truthy(labels.appName) THEN labels.appName[1]     \* app.kubernetes.io/name
            ELSE IF Truthy(labels.app) THEN labels.app[1]        \* app
            ELSE IF Truthy(labels.k8sApp) THEN labels.k8sApp[1]  \* k8s-app
            ELSE IF Truthy(labels.instance) THEN labels.instance[1]  \* app.kubernetes.io/instance
            ELSE <<>>
        fromName(name) ==
            Call1(LAMBDA s2 :
                    IF s2 # <<>> THEN s2
                    ELSE Call1(LAMBDA s3 :
                                 IF s3 # <<>> THEN s3
                                 ELSE Call1(LAMBDA s4 : IF s4 # <<>> THEN s4 ELSE name,
                                            MeaningfulParts(name)),
                               StripLongHash(name)),
                  StripHashSuffix(name))
    IN  Call1(LAMBDA app : IF app = <<>> THEN UnknownApp ELSE app,
              IF pod_name = <<>> THEN <<>>
              ELSE IF fromLabels # <<>> THEN fromLabels
              ELSE Call1(fromName, pod_name))

\* strip_sha_repo with short=False: the digest is not truncated
StripShaRepoNoTruncate(digest) ==
    Call1(LAMBDA d :
            IF d = <<>> THEN Unknown
            ELSE IF StartsWith(d, Sha256) THEN AfterFirst(d, Sha256) ELSE d,
          digest)

\* helpers.py strip_sha_repo, lines 36-45
strip_sha_repo(digest) ==
    Call1(LAMBDA d :
            IF d = <<>> THEN Unknown
            ELSE Prefix(IF StartsWith(d, Sha256) THEN AfterFirst(d, Sha256) ELSE d, 12),
          digest)

\* helpers.py pick_digest_from_image_id, lines 48-65 (None is <<>>)
pick_digest_from_image_id(image_id) ==
    IF image_id = <<>> THEN None
    ELSE IF Contains(image_id, At) THEN Some(AfterFirst(image_id, At))
    ELSE IF Find(image_id, Sha256) # 0
         THEN Some(SubSeq(image_id, Find(image_id, Sha256), Len(image_id)))
    ELSE None

\* helpers.py extract_digest_from_pod_obj, lines 68-103, for the first
\* container: the status imageID, then a digest pinned in the spec image
extract_digest_from_pod_obj(imageID, image) ==
    Call1(LAMBDA fromStatus :
            IF Truthy(fromStatus) THEN fromStatus
            ELSE IF Contains(image, At) THEN Some(AfterFirst(image, At))
            ELSE None,
          IF IsNone(imageID) THEN None ELSE pick_digest_from_image_id(imageID[1]))

\* helpers.py resolve_digest_with_skopeo, lines 165-197: the inspected digest
\* stripped, "unknown" on any failure
resolve_digest_with_skopeo(image_url, inspected) ==
    IF image_url = <<>> THEN Unknown
    ELSE IF IsNone(inspected) \/ inspected[1] = <<>> THEN Unknown
    ELSE strip_sha_repo(inspected[1])

\* helpers.py extract_digest, lines 200-218; hasContainers: the pod has a
\* container, imageID: its status image id, image: its spec image,
\* inspected: what skopeo reports for the image (None on failure)
extract_digest(hasContainers, imageID, image, inspected) ==
    Call1(LAMBDA in_pod :
            IF Truthy(in_pod) THEN strip_sha_repo(in_pod[1])
            ELSE IF hasContainers /\ image # <<>> THEN resolve_digest_with_skopeo(image, inspected)
            ELSE Unknown,
          IF hasContainers THEN extract_digest_from_pod_obj(imageID, image) ELSE None)

-----------------------------------------------------------------------------
(* Operator event filter                                                   *)

MaxEvents == 2
UIDs      == {"u1", "u2"}
\* each pod lives in one namespace
PodNamespace(uid) == IF uid = "u1" THEN "ns1" ELSE "ns2"

\* status.conditions of a pod: entries with a type and a status
PodConditions ==
    { <<[type |-> "Ready", status |-> "False"]>>,
      <<[type |-> "PodScheduled", status |-> "True"]>>,
      <<[type |-> "PodScheduled", status |-> "True"], [type |-> "Ready", status |-> "True"]>> }

\* status.containerStatuses of a pod: whether "running" is a key of the
\* entry's state, and its started flag
PodContainerStatuses ==
    { <<>>,
      <<[running |-> TRUE, started |-> FALSE]>>,
      <<[running |-> FALSE, started |-> FALSE], [running |-> TRUE, started |-> TRUE]>> }

\* a pod event as the handlers read it: event["type"], metadata.uid,
\* metadata.namespace, metadata.deletionTimestamp, status.phase,
\* status.conditions, status.containerStatuses
PodEvents ==
    {[type |-> t, uid |-> u, namespace |-> PodNamespace(u), deletionTimestamp |-> d,
      phase |-> p, conditions |-> cs, containerStatuses |-> st] :
        t \in {"MODIFIED", "DELETED"}, u \in UIDs, d \in BOOLEAN,
        p \in {"Pending", "Running"}, cs \in PodConditions, st \in PodContainerStatuses}

NoEvent ==
    [type |-> "UNKNOWN", uid |-> "u1", namespace |-> "ns1", deletionTimestamp |-> FALSE,
     phase |-> "Pending", conditions |-> <<>>, containerStatuses |-> <<>>]

\* any(c.get("type") == "Ready" and c.get("status") == "True" for c in conds)
IsReady(conds) ==
    \E i \in DOMAIN conds : conds[i].type = "Ready" /\ conds[i].status = "True"

\* the loop over containerStatuses: "running" in state and cs.get("started")
AnyStarted(statuses) ==
    \E i \in DOMAIN statuses : statuses[i].running /\ statuses[i].started

\* SnapWatcher/src/operator.py lines 39-61 with the deletion test reduced to
\* the event type
WatcherGuardNoTimestamp(evt) ==
    /\ evt.type # "DELETED"
    /\ evt.phase = "Running"
    /\ IsReady(evt.conditions)
    /\ AnyStarted(evt.containerStatuses)

\* SnapWatcher/src/operator.py lines 39-61: the early returns of on_pod_event
WatcherGuard(evt) ==
    /\ ~(evt.type = "DELETED" \/ evt.deletionTimestamp)
    /\ evt.phase = "Running"
    /\ IsReady(evt.conditions)
    /\ AnyStarted(evt.containerStatuses)

\* classes/operator_watcher.py lines 165-187 without the test of the Ready
\* condition
OperatorGuardNoReady(evt) ==
    /\ ~(evt.type = "DELETED" \/ evt.deletionTimestamp)
    /\ evt.phase = "Running"
    /\ AnyStarted(evt.containerStatuses)

\* classes/operator_watcher.py lines 165-187: the early returns of
\* handle_pod_event
OperatorGuard(evt) ==
    /\ ~(evt.type = "DELETED" \/ evt.deletionTimestamp)
    /\ evt.phase = "Running"
    /\ IsReady(evt.conditions)
    /\ AnyStarted(evt.containerStatuses)

\* flows/operator_watcher.py lines 59-81: the early returns of the on_pod_event
\* of the module-level operator
FlowsGuard(evt) ==
    /\ ~(evt.type = "DELETED" \/ evt.deletionTimestamp)
    /\ evt.phase = "Running"
    /\ IsReady(evt.conditions)
    /\ AnyStarted(evt.containerStatuses)

\* classes/operator_watcher.py lines 210-277 with the pod deleted whatever
\* the pipeline returned
OperatorStepsDeleteAlways(invoke, outcome, auto_delete_pod) ==
    IF ~invoke THEN <<>> ELSE <<"pipeline", "delete_pod">>

\* classes/operator_watcher.py lines 210-277: the external actions of
\* handle_pod_event in order: the pipeline call, then delete_pod when the
\* result has success and auto_delete_pod is set; a failure result and an
\* exception end the handler
OperatorSteps(invoke, outcome, auto_delete_pod) ==
    IF ~invoke THEN <<>>
    ELSE IF outcome = "success" /\ auto_delete_pod THEN <<"pipeline", "delete_pod">>
    ELSE <<"pipeline">>

\* classes/operator_watcher.py lines 310-320: on_pod_event dispatches to the
\* global operator, within its namespace when the scope is "namespace"
OperatorDispatches(evt) ==
    /\ operator.set
    /\ operator.scope = "namespace" => evt.namespace = operator.namespace

\* SnapWatcher/src/operator.py lines 63-66 with the UID recorded only once the
\* pipeline has reported success
DedupAfterSuccessOnly(already, uid, pass, outcome) ==
    IF pass /\ outcome = "success" THEN already \cup {uid} ELSE already

\* SnapWatcher/src/operator.py lines 63-66: the UID of a guard-passing event
\* is in _ALREADY_CHECKPOINTED when the handler goes on, whatever follows;
\* nothing in the module removes an element
DedupAfter(already, uid, pass, outcome) ==
    IF pass THEN already \cup {uid} ELSE already

\* SnapWatcher/src/operator.py lines 105-149: how the request ends once guard
\* and dedup have passed: the token file is missing and nothing is sent, the
\* response reports success, the response reports a failure of the pipeline,
\* or requests raises (connection error, timeout, HTTP error status)
WatcherOutcomes(pass, fresh, tokenFile) ==
    IF ~(pass /\ fresh) THEN {"none"}
    ELSE IF ~tokenFile THEN {"no_token"}
    ELSE {"success", "failure", "raised"}

\* SnapWatcher/src/operator.py lines 63-132: the effects of the handler in
\* order, the insertion into the dedup set and then the POST to SnapApi
WatcherSteps(pass, fresh, tokenFile) ==
    IF ~(pass /\ fresh) THEN <<>>
    ELSE IF tokenFile THEN <<"add_uid", "post">>
    ELSE <<"add_uid">>

\* SnapWatcher/src/operator.py on_pod_event: guard, dedup on the pod UID, then
\* the checkpoint request to SnapApi (not sent when the service account token
\* file is missing)
OnPodEvent ==
    /\ nEvents < MaxEvents
    /\ \E evt \in PodEvents :
       \* the token file is read only once guard and dedup have passed
       \E tokenFile \in IF WatcherGuard(evt) /\ evt.uid \notin alreadyCheckpointed
                         THEN BOOLEAN ELSE {FALSE} :
       \E outcome \in WatcherOutcomes(WatcherGuard(evt), evt.uid \notin alreadyCheckpointed,
                                      tokenFile) :
        LET pass    == WatcherGuard(evt)
            fresh   == evt.uid \notin alreadyCheckpointed
            request == pass /\ fresh /\ tokenFile
        IN  /\ alreadyCheckpointed' = DedupAfter(alreadyCheckpointed, evt.uid, pass, outcome)
            /\ watcherCalls' =
                  IF request
                  THEN [watcherCalls EXCEPT ![evt.uid] = @ + 1]
                  ELSE watcherCalls
            /\ lastEvt' = [handler |-> "watcher", evt |-> evt, triggered |-> request,
                            outcome |-> outcome,
                            steps |-> WatcherSteps(pass, fresh, tokenFile)]
    /\ nEvents' = nEvents + 1
    /\ UNCHANGED <<operatorCalls, deletedPods, operator>>
    /\ UNCHANGED <<admCall, admVars, orcVars, cacheVars>>

\* classes/operator_watcher.py on_pod_event -> handle_pod_event: guard, then the
\* pipeline call; on success, with auto_delete_pod, delete_pod
HandlePodEvent ==
    /\ nEvents < MaxEvents
    /\ \E evt \in PodEvents :
       \* the pipeline has an outcome only when it is called
       \E outcome \in IF OperatorDispatches(evt) /\ OperatorGuard(evt)
                       THEN {"success", "failure", "raised"} ELSE {"none"} :
        LET invoke == OperatorDispatches(evt) /\ OperatorGuard(evt)
            steps  == OperatorSteps(invoke, outcome, operator.auto_delete_pod)
        IN  /\ operatorCalls' =
                  IF invoke
                  THEN [operatorCalls EXCEPT ![evt.uid] = @ + 1]
                  ELSE operatorCalls
            /\ deletedPods' =
                  IF \E i \in DOMAIN steps : steps[i] = "delete_pod"
                  THEN deletedPods \cup {evt.uid}
                  ELSE deletedPods
            /\ lastEvt' = [handler |-> "operator", evt |-> evt, triggered |-> invoke,
                            outcome |-> outcome,
                            steps |-> steps]
    /\ nEvents' = nEvents + 1
    /\ UNCHANGED <<alreadyCheckpointed, watcherCalls, operator>>
    /\ UNCHANGED <<admCall, admVars, orcVars, cacheVars>>

\* removal of the i-th element of a sequence
RemoveAt(seq, i) == SubSeq(seq, 1, i - 1) \o SubSeq(seq, i + 1, Len(seq))

\* classes/operator_watcher.py lines 308-322 and 142-223: on_pod_event and handle_pod_event
\* up to the await of the pipeline call, where the invocation is suspended and
\* the event loop may run the handler of another event; nothing between the
\* guard and the call tests or records the pod UID
HandlePodEventBegins ==
    /\ nEvents < MaxEvents
    /\ \E evt \in PodEvents :
        LET invoke == OperatorDispatches(evt) /\ OperatorGuard(evt)
        IN  /\ operatorCalls' =
                  IF invoke
                  THEN [operatorCalls EXCEPT ![evt.uid] = @ + 1]
                  ELSE operatorCalls
            /\ inflight' = IF invoke THEN Append(inflight, evt) ELSE inflight
            /\ lastEvt' = [handler |-> "operator", evt |-> evt, triggered |-> invoke,
                            outcome |-> "none", steps |-> <<>>]
    /\ nEvents' = nEvents + 1
    /\ UNCHANGED <<alreadyCheckpointed, watcherCalls, deletedPods, operator>>
    /\ UNCHANGED <<admCall, admVars, cacheVars>>
    /\ UNCHANGED <<orcIn, orcOut, codec, resolver, detect, storeVars, stream, ctl, hooks>>

\* classes/operator_watcher.py lines 223-277: a suspended invocation resumes
\* with the pipeline's result and runs to its end
HandlePodEventResumes ==
    /\ \E i \in DOMAIN inflight, outcome \in {"success", "failure", "raised"} :
        LET evt   == inflight[i]
            steps == OperatorSteps(TRUE, outcome, operator.auto_delete_pod)
        IN  /\ deletedPods' =
                  IF \E k \in DOMAIN steps : steps[k] = "delete_pod"
                  THEN deletedPods \cup {evt.uid}
                  ELSE deletedPods
            /\ inflight' = RemoveAt(inflight, i)
            /\ lastEvt' = [handler |-> "operator", evt |-> evt, triggered |-> TRUE,
                            outcome |-> outcome, steps |-> steps]
    /\ UNCHANGED <<alreadyCheckpointed, watcherCalls, operatorCalls, nEvents, operator>>
    /\ UNCHANGED <<admCall, admVars, cacheVars>>
    /\ UNCHANGED <<orcIn, orcOut, codec, resolver, detect, storeVars, stream, ctl, hooks>>

-----------------------------------------------------------------------------
(* Admission mutation decision                                             *)

MaxContainers == 2

TrueStr  == <<"t","r","u","e">>
FalseStr == <<"f","a","l","s","e">>
GenerationFailed ==
    <<"g","e","n","e","r","a","t","i","o","n","-","f","a","i","l","e","d">>

\* snaphook.py lines 429-430: registry and repo when the cache config fails
FallbackRegistry ==
    <<"N","e","e","d",".","R","e","g","i","s","t","r","y",".","H","e","r","e",":","8","0","8","1">>
FallbackRepo ==
    <<"R","e","p","o",".","N","a","m","e",".","H","e","r","e">>
\* routes/pod.py lines 571-572: defaults of snap_registry and snap_repo
DockerIo == <<"d","o","c","k","e","r",".","i","o">>
SnapRepo == <<"s","n","a","p">>

\* the configured cache target and cluster name
CfgRegistry == <<"R","e","g">>
CfgRepo     == <<"R","e","p","o">>
CfgCluster  == <<"C","1">>

\* images and digests
Hex14       == <<"0","1","2","3","4","5","6","7","8","9","a","b","c","d">>
FullDigest  == Sha256 \o Hex14
ImageTagged == <<"i","m","g",":","1">>
ImagePinned == <<"i","m","g","@">> \o FullDigest
Images      == {ImageTagged, ImagePinned}

\* ---- the digest resolver as one call ----

\* what `skopeo inspect` does when resolve_digest_with_skopeo runs it
SkopeoOutcomes == {"run_raises", "nonzero", "empty_stdout", "not_json", "no_digest", "digest"}

\* helpers.py lines 187-193: the Digest field read from the output, None
\* when the command fails or its output is not parsed
SkopeoInspected(outcome) ==
    IF outcome = "digest" THEN Some(FullDigest)
    ELSE IF outcome = "no_digest" THEN Some(<<>>)
    ELSE None

\* resolve_digest_with_skopeo without the try/except of lines 186-195
ResolveDigestNoExcept(image_url, outcome) ==
    [raised |-> image_url # <<>> /\ outcome \in {"run_raises", "not_json"},
     val |-> resolve_digest_with_skopeo(image_url, SkopeoInspected(outcome))]

\* helpers.py resolve_digest_with_skopeo, lines 165-197, with its handler:
\* an exception of run() or json.loads is caught at line 194
ResolveDigestWithSkopeo(image_url, outcome) ==
    [raised |-> FALSE,
     val |-> resolve_digest_with_skopeo(image_url, SkopeoInspected(outcome))]

\* helpers.py extract_digest, lines 200-218, as one call: the digest
\* returned, whether the call raised, whether skopeo was consulted
ExtractDigestCall(hasContainers, imageID, image, outcome) ==
    Call1(LAMBDA in_pod :
            IF Truthy(in_pod)
            THEN [raised |-> FALSE, digest |-> strip_sha_repo(in_pod[1]), skopeo |-> FALSE]
            ELSE IF hasContainers /\ image # <<>>
            THEN Call1(LAMBDA r : [raised |-> r.raised,
                                   digest |-> IF r.raised THEN <<>> ELSE r.val,
                                   skopeo |-> TRUE],
                       ResolveDigestWithSkopeo(image, outcome))
            ELSE [raised |-> FALSE, digest |-> Unknown, skopeo |-> FALSE],
          IF hasContainers THEN extract_digest_from_pod_obj(imageID, image) ELSE None)

\* status imageID values: absent, empty, the CRI forms of the documentation
\* of pick_digest_from_image_id (lines 49-55), and one without a digest
ImageIds ==
    {None, Some(<<>>),
     Some(<<"d","k","r",":","/","/">> \o FullDigest),
     Some(<<"c","t","d",":","/","/">> \o FullDigest),
     Some(<<"r","/","n","g","x","@">> \o FullDigest),
     Some(<<"d","k","r",":","/","/","r","/","n","g","x","@">> \o FullDigest),
     Some(<<"d","k","r",":","/","/","a","b","c">>)}

NoResolverCall ==
    [called |-> FALSE, hasContainers |-> FALSE, imageID |-> None, image |-> <<>>,
     outcome |-> "digest", raised |-> FALSE, digest |-> <<>>, skopeo |-> FALSE]

\* one call of extract_digest(pod): a pod without containers has no status
ExtractDigest ==
    /\ ~resolver.called
    /\ \E hasContainers \in BOOLEAN :
        \E imageID \in IF hasContainers THEN ImageIds ELSE {None} :
         \E image \in IF hasContainers THEN Images \cup {<<>>} ELSE {<<>>} :
          \E outcome \in SkopeoOutcomes :
           \E res \in {ExtractDigestCall(hasContainers, imageID, image, outcome)} :
              resolver' = [called |-> TRUE, hasContainers |-> hasContainers,
                           imageID |-> imageID, image |-> image, outcome |-> outcome,
                           raised |-> res.raised, digest |-> res.digest,
                           skopeo |-> res.skopeo]
    /\ UNCHANGED <<orcIn, orcOut, codec, detect, ctlVars, admCall, filterVars, admVars, cacheVars>>

\* labels of a pod that asks for the cache treatment
EligibleLabels ==
    [snap : {Some(TrueStr)},
     appName : {None, Some(<<"W","e","b">>)},
     app : {None, Some(<<"a","p","i">>)},
     k8sApp : {None}, instance : {None},
     hash : {None, Some(<<"h","1">>), Some(<<"H","1">>), Some(<<>>)},
     mutated : {None}]

\* labels of a pod that an admission already rewrote: the snap label and
\* snap.weaversoft.io/mutated = "true" (lines 464-468)
MutatedLabels ==
    [snap : {Some(TrueStr)},
     appName : {None}, app : {Some(<<"a","p","i">>)},
     k8sApp : {None}, instance : {None}, hash : {Some(<<"h","1">>)},
     mutated : {Some(TrueStr)}]

\* labels of a pod without the snap label, or with another value of it
OtherLabels ==
    [snap : {None, Some(FalseStr)},
     appName : {None}, app : {Some(<<"a","p","i">>)},
     k8sApp : {None}, instance : {None}, hash : {Some(<<"h","1">>)},
     mutated : {None}]

ContainerName(i) == <<"c", CHOOSE d \in DigitChars : d = ToString(i)>>

\* the containers of a pod: distinct names, one image
Containers(n, image) == [i \in 1..n |-> [name |-> ContainerName(i), image |-> image]]

\* metadata.name / metadata.generateName / request.namespace
PodIdentities ==
    { <<Some(<<"p","1">>), None, Some(<<"n","s">>)>>,
      <<None, Some(<<"w","-","5","f","9","c","8","d","7","b","-">>), Some(<<"n","s">>)>>,
      <<Some(<<"p","1">>), None, None>> }

AdmissionRequest(sh, id, lb, n, img) ==
    [shape |-> sh, name |-> id[1], generateName |-> id[2], namespace |-> id[3],
     labels |-> lb, containers |-> Containers(n, img), imageID |-> None]

\* AdmissionReview requests for a pod CREATE; shape "nullMetadata" and
\* "nullLabels" carry JSON null where a mapping is expected
AdmissionRequests ==
    {AdmissionRequest("ok", id, lb, n, img) :
        id \in PodIdentities, lb \in EligibleLabels, n \in 0..MaxContainers, img \in Images}
    \cup
    {AdmissionRequest(sh, <<Some(<<"p","1">>), None, Some(<<"n","s">>)>>, lb, 1, ImageTagged) :
        sh \in {"ok", "nullMetadata", "nullLabels"},
        lb \in OtherLabels \cup EligibleLabels \cup MutatedLabels}

\* what the surroundings answer while one request is handled: the cache
\* config lookup, skopeo's digest for the image (None: inspection failed; a
\* pinned image is never inspected), the oracle's answer to each query, the
\* call to SnapApi
AdmissionEnvs(req, n) ==
    [cfg : {"ok", "fail"},
     inspected : IF Len(req.containers) > 0 /\ req.containers[1].image = ImageTagged
                 THEN {None, Some(FullDigest)} ELSE {None},
     answers : [1..n -> BOOLEAN], api : {"200", "500", "error"}]

NoRequest ==
    [shape |-> "ok", name |-> None, generateName |-> None, namespace |-> None,
     labels |-> [snap |-> None, appName |-> None, app |-> None, k8sApp |-> None,
                 instance |-> None, hash |-> None, mutated |-> None],
     containers |-> <<>>, imageID |-> None]

\* JSON Patch operations: "replace" of /spec/containers/<index>/image, and
\* "replace" of /metadata/labels/snap.weaversoft.io~1mutated
ImagePatch(index, value) == [kind |-> "image", index |-> index, value |-> value]
LabelPatch == [kind |-> "label", index |-> -1, value |-> TrueStr]

\* snaphook.py lines 341-352: the objectSelector of the webhook registration,
\* snap.weaversoft.io/snap Exists and snap.weaversoft.io/mutated DoesNotExist
ObjectSelectorMatches(req) ==
    /\ req.shape = "ok"
    /\ req.labels.snap # None
    /\ req.labels.mutated = None

\* JSON Patch (RFC 6902, 4.3): the target location of a "replace" must exist
\* in the document; /spec/containers/<index>/image exists when the pod has a
\* container at that 0-based index, /metadata/labels/<key> when the pod
\* carries a label of that key
ReplaceTargetExists(req, patch) ==
    IF patch.kind = "image"
    THEN patch.index \in 0..(Len(req.containers) - 1)
    ELSE req.labels.mutated # None

\* list.index(x): 0-based position of the first equal element
IndexOf(seq, x) == (CHOOSE i \in 1..Len(seq) : seq[i] = x /\ \A j \in 1..(i - 1) : seq[j] # x) - 1

\* snaphook.py lines 389-394: name, else generateName without a trailing dash
SnapHookPodName(req) ==
    IF Truthy(req.name) THEN req.name[1]
    ELSE LET g == GetOr(req.generateName, Unknown)
         IN  IF g # <<>> /\ g[Len(g)] = "-" THEN SubSeq(g, 1, Len(g) - 1) ELSE g

\* snaphook.py _extract_app_name_from_pod, lines 859-866
SnapHookAppName(pod_name, labels) ==
    Call1(LAMBDA app : IF app = UnknownApp THEN Unknown ELSE app,
          extract_app_name_from_pod(pod_name, labels))

\* the 7-tuple of one loop iteration of _process_webhook_request, lines 417-431
SnapHookTuple(req, env) ==
    [registry  |-> IF env.cfg = "ok" THEN CfgRegistry ELSE FallbackRegistry,
     repo      |-> IF env.cfg = "ok" THEN CfgRepo ELSE FallbackRepo,
     cluster   |-> CfgCluster,
     namespace |-> GetOr(req.namespace, DefaultNs),
     app       |-> SnapHookAppName(SnapHookPodName(req), req.labels),
     digest    |-> extract_digest(Len(req.containers) > 0, req.imageID,
                                  IF Len(req.containers) > 0 THEN req.containers[1].image ELSE <<>>,
                                  env.inspected),
     hash      |-> GetOr(req.labels.hash, Unknown)]

\* generate_image_tag called with the fields of a 7-tuple
TagOf(tuple) ==
    Call1(LAMBDA t : generate_image_tag(t.registry, t.repo, t.cluster, t.namespace,
                                        t.app, t.digest, t.hash),
          tuple)

\* snaphook.py lines 453-472 patching whatever the oracle answered
SnapHookContainerPatchesAlways(containers, i, tag, image_exists) ==
    <<ImagePatch(IndexOf(containers, containers[i]), tag), LabelPatch>>

\* snaphook.py lines 453-472: the patches one loop iteration appends
SnapHookContainerPatches(containers, i, tag, image_exists) ==
    IF image_exists
    THEN <<ImagePatch(IndexOf(containers, containers[i]), tag), LabelPatch>>
    ELSE <<>>

RECURSIVE SnapHookPatches(_, _, _, _)
\* the patches appended by iterations i..n of the loop, lines 412-474
SnapHookPatches(containers, i, tag, answers) ==
    IF i > Len(containers) THEN <<>>
    ELSE SnapHookContainerPatches(containers, i, tag, answers[i])
         \o SnapHookPatches(containers, i + 1, tag, answers)

\* snaphook.py lines 500-510
AllowResponse == [replied |-> TRUE, allowed |-> TRUE, patchType |-> "absent", patches |-> <<>>]
\* snaphook.py lines 485-497
PatchResponse(patches) ==
    [replied |-> TRUE, allowed |-> TRUE, patchType |-> "JSONPatch", patches |-> patches]
\* snaphook.py lines 516-526 and 530-540
ErrorResponse == [replied |-> TRUE, allowed |-> FALSE, patchType |-> "absent", patches |-> <<>>]
NoResponse == [replied |-> FALSE, allowed |-> FALSE, patchType |-> "absent", patches |-> <<>>]

\* snaphook.py _process_webhook_request, lines 381-540: the response and the
\* oracle queries made on the way
SnapHookProcess(req, env) ==
    LET n == Len(req.containers)
        eligible == req.labels.snap = Some(TrueStr)
        checked(t, tag) ==
            Call2(LAMBDA ref, patches :
                    [resp |-> IF patches # <<>> THEN PatchResponse(patches) ELSE AllowResponse,
                     queries |-> [i \in 1..n |-> [ref |-> ref, result |-> env.answers[i]]]],
                  HelpersImageRef(t.registry, t.repo, t.cluster, t.namespace,
                                  t.app, t.digest, t.hash),
                  SnapHookPatches(req.containers, 1, tag.val, env.answers))
        generated(t) ==
            Call1(LAMBDA tag :
                    IF tag.err
                    THEN [resp |-> ErrorResponse, queries |-> <<>>]  \* ValueError -> inner except
                    ELSE checked(t, tag),
                  TagOf(t))
    IN  IF req.shape = "nullMetadata"
        THEN [resp |-> ErrorResponse, queries |-> <<>>]     \* metadata.get -> outer except
        ELSE IF req.shape = "nullLabels"
        THEN [resp |-> ErrorResponse, queries |-> <<>>]     \* labels.get -> inner except
        ELSE IF ~eligible \/ n = 0
        THEN [resp |-> AllowResponse, queries |-> <<>>]
        ELSE Call1(generated, SnapHookTuple(req, env))

\* snaphook.py _create_webhook_handler -> _process_webhook_request
ProcessWebhookRequest ==
    /\ admReq.handler = "none"
    /\ \E req \in AdmissionRequests :
         \E env \in AdmissionEnvs(req, Len(req.containers)) :
          \E out \in {SnapHookProcess(req, env)} :
                /\ env.api = "200"
                /\ admReq' = [handler |-> "snaphook", req |-> req, env |-> env]
                /\ admResp' = out.resp
                /\ admOracle' = out.queries
    /\ UNCHANGED <<admCall, filterVars, orcVars, cacheVars>>

\* routes/pod.py receive_pod_webhook, lines 529-536 and 571-572: the 7-tuple
PodWebhookTuple(cluster_name, req, env) ==
    LET labelsAbsent == req.shape # "ok"
    IN  [registry  |-> IF env.cfg = "ok" THEN CfgRegistry ELSE DockerIo,
         repo      |-> IF env.cfg = "ok" THEN CfgRepo ELSE SnapRepo,
         cluster   |-> cluster_name,
         namespace |-> IF req.shape = "nullMetadata" THEN Unknown
                       ELSE GetOr(req.namespace, Unknown),
         app       |-> IF labelsAbsent THEN Unknown ELSE GetOr(req.labels.app, Unknown),
         digest    |-> extract_digest(Len(req.containers) > 0, req.imageID,
                                      IF Len(req.containers) > 0 THEN req.containers[1].image ELSE <<>>,
                                      env.inspected),
         hash      |-> IF labelsAbsent THEN Unknown ELSE GetOr(req.labels.hash, Unknown)]

\* routes/pod.py receive_pod_webhook, lines 577-625: the generated tag
\* ("generation-failed" when the codec raises), the existence check, the reply
ReceivePodWebhook(cluster_name, req, env, exists) ==
    Call1(LAMBDA t :
            Call1(LAMBDA gen :
                    [exist |-> exists,
                     generated_image_tag |-> IF gen.err THEN GenerationFailed ELSE gen.val,
                     queries |-> <<[ref |-> PodImageRef(t.registry, t.repo, t.cluster,
                                                        t.namespace, t.app, t.digest, t.hash),
                                    result |-> exists]>>],
                  TagOf(t)),
          PodWebhookTuple(cluster_name, req, env))

\* SnapHook/src/webhook.py lines 78-95: one image patch per container, then
\* the label patch
MutatePodsPatches(containers, tag) ==
    [i \in 1..Len(containers) |-> ImagePatch(i - 1, tag)] \o <<LabelPatch>>

\* SnapHook/src/webhook.py mutate_pods, lines 16-112: the pod is sent to
\* SnapApi /pod/webhook; the answer decides the patch
MutatePodsProcess(req, env) ==
    LET cluster_name == Lower(CfgCluster)
        exists == Len(env.answers) > 0 /\ env.answers[1]
    IN  Call1(LAMBDA api :
                LET should_patch_image == env.api = "200" /\ api.exist
                    patches == IF should_patch_image
                               THEN MutatePodsPatches(req.containers, api.generated_image_tag)
                               ELSE <<>>
                IN  [resp |-> IF patches # <<>> THEN PatchResponse(patches) ELSE AllowResponse,
                     queries |-> IF env.api = "error" THEN <<>> ELSE api.queries],
              ReceivePodWebhook(cluster_name, req, env, exists))

\* SnapHook/src/webhook.py mutate_pods -> routes/pod.py receive_pod_webhook
MutatePods ==
    /\ admReq.handler = "none"
    /\ \E req \in AdmissionRequests :
         \E env \in AdmissionEnvs(req, 1) :
          \E out \in {MutatePodsProcess(req, env)} :
                /\ admReq' = [handler |-> "mutate_pods", req |-> req, env |-> env]
                /\ admResp' = out.resp
                /\ admOracle' = out.queries
    /\ UNCHANGED <<admCall, filterVars, orcVars, cacheVars>>

-----------------------------------------------------------------------------
(* Checkpoint-and-push pipeline and the admission of a replacement pod     *)
(* (flows/checkpoint_and_push_combined.py, classes/snaphook.py)            *)

\* checkpoint_and_push_combined.py _short_digest_from_full, lines 26-36
short_digest_from_full(full_digest) ==
    Call1(LAMBDA d : IF d = <<>> THEN <<>> ELSE Prefix(AfterLast(d, Colon), 12),
          full_digest)

\* checkpoint_and_push_combined.py lines 76-82: the digest of an image pinned
\* with @, "" for a tag-based image
PinnedShortDigest(container_image) ==
    IF Contains(container_image, At)
    THEN Prefix(AfterLast(AfterFirst(container_image, At), Colon), 12)
    ELSE <<>>

\* checkpoint_and_push_combined.py lines 288-289: only the cluster name is
\* lower-cased
PipelineImageTag(snap_registry, snap_repo, snap_cluster, namespace, app, orig_image_short_digest, pod_template_hash) ==
    snap_registry \o Slash \o snap_repo \o Slash
        \o Lower(snap_cluster) \o Dash \o namespace \o Dash \o app
        \o Colon \o orig_image_short_digest \o Dash \o pod_template_hash

\* pod templates: the labels, namespace and image shared by the running pod
\* and its replacement, and the digest skopeo reports for the image
Templates ==
    [appName : {None, Some(<<"W","e","b">>)},
     app : {None, Some(<<"a","p","i">>), Some(<<"A","p","i">>)},
     hash : {None, Some(<<"h","1">>), Some(<<"H","1">>)},
     namespace : {<<"n","s">>},
     image : Images,
     inspected : {None, Some(FullDigest)}]

NoTemplate ==
    [appName |-> None, app |-> None, hash |-> None, namespace |-> <<>>,
     image |-> <<>>, inspected |-> None]

\* the running pod handed to the pipeline: a pod of the template on a node
RunningPod(t) ==
    [name |-> Some(<<"w","-","1">>), namespace |-> Some(t.namespace),
     nodeName |-> Some(<<"n","1">>), app |-> t.app, hash |-> t.hash,
     containers |-> <<[name |-> Some(<<"c">>), image |-> t.image]>>]

\* pod specs a caller may pass: the running pod, and the same with one of the
\* facts read at lines 65-77 absent
RunningPods(t) ==
    {RunningPod(t),
     [RunningPod(t) EXCEPT !.name = None],
     [RunningPod(t) EXCEPT !.namespace = None],
     [RunningPod(t) EXCEPT !.nodeName = None],
     [RunningPod(t) EXCEPT !.containers = <<>>],
     [RunningPod(t) EXCEPT !.containers = <<[name |-> None, image |-> t.image]>>]}

\* no pod spec read yet
NoPod ==
    [name |-> None, namespace |-> None, nodeName |-> None, app |-> None,
     hash |-> None, containers |-> <<>>]

\* what the kubelet's checkpoint endpoint may write on stdout
KubeletResponses == {"items", "not_json", "no_items", "empty_items"}

\* one invocation of the pipeline: its position, the external commands it
\* has run (in order, with their outcome), the progress events it has sent
\* and, once done, its result
NoPipelineResult ==
    [done |-> FALSE, success |-> FALSE, message |-> FALSE, image_tag |-> <<>>,
     app |-> <<>>, digest |-> <<>>, hash |-> <<>>, failed |-> "none",
     pc |-> "ExtractPodFacts", pod |-> NoPod, kubelet |-> "none",
     trace |-> <<>>, progress |-> <<>>]

NoAdmitResult ==
    [done |-> FALSE, err |-> FALSE, tag |-> <<>>, ref |-> <<>>, hit |-> FALSE,
     afterPush |-> FALSE]

\* run, lines 11-21: one subprocess, run once; ok is exit status 0
Ran(p, command, ok) ==
    [p EXCEPT !.trace = Append(@, [cmd |-> command, ok |-> ok])]

\* send_progress
Progress(p, events) ==
    [p EXCEPT !.progress = @ \o events]

\* lines 347-359: any exception ends the invocation with a "failed" progress
\* event and a failure result
PipelineFailsSilently(p, at) ==
    [p EXCEPT !.done = TRUE, !.success = FALSE, !.message = TRUE,
              !.failed = at, !.pc = "Done"]

PipelineFails(p, at) ==
    [p EXCEPT !.done = TRUE, !.success = FALSE, !.message = TRUE,
              !.failed = at, !.pc = "Done", !.progress = Append(@, "failed")]

\* lines 60-128: the pod facts are read and validated, then the address of
\* the snapapi service is looked up (a failed lookup falls back to the
\* configured URL)
ExtractPodFactsCallsFirst(p, pod, svc_ok) ==
    LET p1 == Ran([p EXCEPT !.pod = pod], "oc_get_svc", svc_ok)
    IN  IF pod.containers = <<>>
        THEN PipelineFails(p1, "required_fields")
        ELSE IF \/ ~Truthy(pod.name) \/ ~Truthy(pod.namespace) \/ ~Truthy(pod.nodeName)
                \/ ~Truthy(pod.containers[1].name)
                \/ ~Truthy(pod.app) \/ ~Truthy(pod.hash)
             THEN PipelineFails(p1, "required_fields")
             ELSE [Progress(p1, <<"5">>)
                     EXCEPT !.pc = "CreateCheckpoint",
                            !.app = GetOr(pod.app, <<>>),
                            !.hash = GetOr(pod.hash, <<>>)]

ExtractPodFactsStep(p, pod, svc_ok) ==
    LET p0 == [p EXCEPT !.pod = pod]
    IN  IF pod.containers = <<>>
        THEN PipelineFails(p0, "required_fields")
        ELSE IF \/ ~Truthy(pod.name) \/ ~Truthy(pod.namespace) \/ ~Truthy(pod.nodeName)
                \/ ~Truthy(pod.containers[1].name)
                \/ ~Truthy(pod.app) \/ ~Truthy(pod.hash)
             THEN PipelineFails(p0, "required_fields")
             ELSE [Progress(Ran(p0, "oc_get_svc", svc_ok), <<"5">>)
                     EXCEPT !.pc = "CreateCheckpoint",
                            !.app = GetOr(pod.app, <<>>),
                            !.hash = GetOr(pod.hash, <<>>)]

\* lines 133-197: the bearer token (the service-account file, else
\* `oc whoami -t`), the checkpoint request to the kubelet, and its response
CreateCheckpointAcceptsNoItems(p, token_file, whoami_ok, curl_ok, stdout) ==
    LET p1 == Progress(p, <<"10">>)
        p2 == IF token_file THEN p1 ELSE Ran(p1, "oc_whoami", whoami_ok)
        p3 == Ran(Progress(p2, <<"30">>), "checkpoint", curl_ok)
    IN  IF ~token_file /\ ~whoami_ok THEN PipelineFails(p2, "token")
        ELSE IF ~curl_ok THEN PipelineFails(p3, "checkpoint")
        ELSE IF stdout = "not_json"
             THEN PipelineFails([p3 EXCEPT !.kubelet = stdout], "checkpoint_response")
             ELSE [Progress(p3, <<"45">>) EXCEPT !.kubelet = stdout,
                                                  !.pc = "UploadCheckpoint"]

CreateCheckpointStep(p, token_file, whoami_ok, curl_ok, stdout) ==
    LET p1 == Progress(p, <<"10">>)
        p2 == IF token_file THEN p1 ELSE Ran(p1, "oc_whoami", whoami_ok)
        p3 == Ran(Progress(p2, <<"30">>), "checkpoint", curl_ok)
    IN  IF ~token_file /\ ~whoami_ok THEN PipelineFails(p2, "token")
        ELSE IF ~curl_ok THEN PipelineFails(p3, "checkpoint")
        ELSE IF stdout # "items"
             THEN PipelineFails([p3 EXCEPT !.kubelet = stdout], "checkpoint_response")
             ELSE [Progress(p3, <<"45">>) EXCEPT !.kubelet = stdout,
                                                  !.pc = "UploadCheckpoint"]

\* lines 202-265: the archive is uploaded from the node; a failed upload sends
\* "failed" and returns the failure result (run raises on a non-zero exit, so
\* the returncode test of line 238 never fires)
UploadCheckpointContinues(p, upload_ok) ==
    LET p1 == Ran(Progress(p, <<"55", "60">>), "upload", upload_ok)
    IN  [Progress(p1, <<"65">>) EXCEPT !.pc = "ResolveDigest"]

UploadCheckpointStep(p, upload_ok) ==
    LET p1 == Ran(Progress(p, <<"55", "60">>), "upload", upload_ok)
    IN  IF upload_ok
        THEN [Progress(p1, <<"65">>) EXCEPT !.pc = "ResolveDigest"]
        ELSE [Progress(p1, <<"failed">>) EXCEPT !.done = TRUE, !.success = FALSE,
                                                !.message = TRUE, !.failed = "upload",
                                                !.pc = "Done"]

\* lines 270-289: the digest of a tag-based image is resolved with skopeo,
\* then the tag is built
ResolveDigestStep(p, t) ==
    LET p1     == Progress(p, <<"72">>)
        pinned == PinnedShortDigest(t.image)
    IN  IF pinned = <<>> /\ IsNone(t.inspected)
        THEN PipelineFails(Ran(p1, "skopeo_inspect", FALSE), "inspect")
        ELSE Call1(LAMBDA digest :
               [(IF pinned = <<>> THEN Ran(p1, "skopeo_inspect", TRUE) ELSE p1)
                  EXCEPT !.digest = digest,
                         !.image_tag = PipelineImageTag(CfgRegistry, CfgRepo, CfgCluster,
                                                        t.namespace, p.app, digest, p.hash),
                         !.pc = "RegistryLogin"],
               IF pinned # <<>> THEN pinned
               ELSE short_digest_from_full(GetOr(t.inspected, <<>>)))

\* lines 291-301: with credentials configured the pipeline logs in to the
\* registry; a failed login is reported and the invocation continues
RegistryLoginStep(p, credentials, login_ok) ==
    IF ~credentials THEN [p EXCEPT !.pc = "BuildImage"]
    ELSE IF login_ok THEN [Ran(p, "buildah_login", TRUE) EXCEPT !.pc = "BuildImage"]
    ELSE [Progress(Ran(p, "buildah_login", FALSE), <<"74">>) EXCEPT !.pc = "BuildImage"]

\* the commands of lines 306-312 up to the first that fails
BuildCommands == <<"buildah_add", "buildah_config", "buildah_commit">>

RECURSIVE RanBuild(_, _, _)
RanBuild(p, i, first_fail) ==
    IF i > Len(BuildCommands) THEN p
    ELSE IF BuildCommands[i] = first_fail THEN Ran(p, BuildCommands[i], FALSE)
    ELSE RanBuild(Ran(p, BuildCommands[i], TRUE), i + 1, first_fail)

\* lines 303-318: the build container is created, filled, annotated and
\* committed; it is removed in the finally block (rm: "ok", "nonzero" or
\* "raised", none of which leaves the block)
BuildImageStepIgnoresFailure(p, from_ok, first_fail, rm) ==
    IF ~from_ok THEN PipelineFails(Ran(p, "buildah_from", FALSE), "buildah_from")
    ELSE [Ran(RanBuild(Ran(p, "buildah_from", TRUE), 1, first_fail),
              "buildah_rm", rm = "ok")
            EXCEPT !.pc = "PushImage"]

BuildImageStep(p, from_ok, first_fail, rm) ==
    IF ~from_ok THEN PipelineFails(Ran(p, "buildah_from", FALSE), "buildah_from")
    ELSE LET p1 == Ran(RanBuild(Ran(p, "buildah_from", TRUE), 1, first_fail),
                       "buildah_rm", rm = "ok")
         IN  IF first_fail # "none" THEN PipelineFails(p1, first_fail)
             ELSE [p1 EXCEPT !.pc = "PushImage"]

\* lines 320-345: the image is pushed and the success result returned
PushImageStep(p, push_ok) ==
    LET p1 == Ran(Progress(p, <<"90">>), "buildah_push", push_ok)
    IN  IF ~push_ok THEN PipelineFails(p1, "buildah_push")
        ELSE [Progress(p1, <<"100">>) EXCEPT !.done = TRUE, !.success = TRUE,
                                             !.message = TRUE, !.pc = "Done"]

\* checkpoint_and_push_combined_from_pod_spec, lines 52-359, one phase at a
\* time
ExtractPodFacts ==
    /\ pipeRes.pc = "ExtractPodFacts"
    /\ \E pod \in RunningPods(tmpl) : \E svc_ok \in BOOLEAN :
         pipeRes' = ExtractPodFactsStep(pipeRes, pod, svc_ok)
    /\ UNCHANGED <<admCall, tmpl, registry, admitRes, entryRes, filterVars, admVars, orcVars>>

CreateCheckpoint ==
    /\ pipeRes.pc = "CreateCheckpoint"
    /\ \E token_file \in BOOLEAN :
        \E whoami_ok \in IF token_file THEN {TRUE} ELSE BOOLEAN :
         \E curl_ok \in BOOLEAN :
          \E stdout \in IF curl_ok THEN KubeletResponses ELSE {"none"} :
            pipeRes' = CreateCheckpointStep(pipeRes, token_file, whoami_ok, curl_ok, stdout)
    /\ UNCHANGED <<admCall, tmpl, registry, admitRes, entryRes, filterVars, admVars, orcVars>>

UploadCheckpoint ==
    /\ pipeRes.pc = "UploadCheckpoint"
    /\ \E upload_ok \in BOOLEAN :
         pipeRes' = UploadCheckpointStep(pipeRes, upload_ok)
    /\ UNCHANGED <<admCall, tmpl, registry, admitRes, entryRes, filterVars, admVars, orcVars>>

ResolveDigest ==
    /\ pipeRes.pc = "ResolveDigest"
    /\ \E res \in {ResolveDigestStep(pipeRes, tmpl)} : pipeRes' = res
    /\ UNCHANGED <<admCall, tmpl, registry, admitRes, entryRes, filterVars, admVars, orcVars>>

RegistryLogin ==
    /\ pipeRes.pc = "RegistryLogin"
    /\ \E credentials \in BOOLEAN :
        \E login_ok \in IF credentials THEN BOOLEAN ELSE {TRUE} :
         pipeRes' = RegistryLoginStep(pipeRes, credentials, login_ok)
    /\ UNCHANGED <<admCall, tmpl, registry, admitRes, entryRes, filterVars, admVars, orcVars>>

BuildImage ==
    /\ pipeRes.pc = "BuildImage"
    /\ \E from_ok \in BOOLEAN :
        \E first_fail \in IF from_ok
                          THEN {"none", "buildah_add", "buildah_config", "buildah_commit"}
                          ELSE {"none"} :
         \E rm \in IF from_ok THEN {"ok", "nonzero", "raised"} ELSE {"ok"} :
           pipeRes' = BuildImageStep(pipeRes, from_ok, first_fail, rm)
    /\ UNCHANGED <<admCall, tmpl, registry, admitRes, entryRes, filterVars, admVars, orcVars>>

\* the pushed image is in the registry under the tag it was pushed with
PushImage ==
    /\ pipeRes.pc = "PushImage"
    /\ \E push_ok \in BOOLEAN :
         \E res \in {PushImageStep(pipeRes, push_ok)} :
            /\ pipeRes' = res
            /\ registry' = IF res.success THEN registry \cup {res.image_tag} ELSE registry
    /\ UNCHANGED <<admCall, tmpl, admitRes, entryRes, filterVars, admVars, orcVars>>

RunPipeline ==
    \/ ExtractPodFacts \/ CreateCheckpoint \/ UploadCheckpoint \/ ResolveDigest
    \/ RegistryLogin \/ BuildImage \/ PushImage

\* the AdmissionReview request for a replacement pod of the template
ReplacementPod(t) ==
    [shape |-> "ok", name |-> None,
     generateName |-> Some(<<"w","-","5","f","9","c","8","d","7","b","-">>),
     namespace |-> Some(t.namespace),
     labels |-> [snap |-> Some(TrueStr), appName |-> t.appName, app |-> t.app,
                 k8sApp |-> None, instance |-> None, hash |-> t.hash,
                 mutated |-> None],
     containers |-> Containers(1, t.image), imageID |-> None]

\* snaphook.py _process_webhook_request, lines 396-474, on a replacement pod
\* of the template: the candidate tag, the reference the oracle looks up in
\* the registry, and its answer
AdmitPod ==
    /\ ~admitRes.done
    /\ \E t \in {SnapHookTuple(ReplacementPod(tmpl),
                               [cfg |-> "ok", inspected |-> tmpl.inspected])} :
         \E tag \in {TagOf(t)} :
           \E ref \in {HelpersImageRef(t.registry, t.repo, t.cluster, t.namespace,
                                       t.app, t.digest, t.hash)} :
             admitRes' = [done |-> TRUE, err |-> tag.err, tag |-> tag.val,
                          ref |-> IF tag.err THEN <<>> ELSE ref,
                          hit |-> ~tag.err /\ ref \in registry,
                          afterPush |-> pipeRes.success]
    /\ UNCHANGED <<admCall, tmpl, registry, pipeRes, entryRes, filterVars, admVars, orcVars>>

-----------------------------------------------------------------------------
(* The other pipeline entry points: the kubelet checkpoint flow, its older *)
(* copy, and the image build-and-push flow                                 *)

NoEntryResult ==
    [fn |-> "none", raised |-> "none", success |-> "absent", message |-> FALSE,
     kubelet |-> "none", trace |-> <<>>, progress |-> <<>>,
     calls |-> 0, pushed |-> <<>>]

\* flows/proccess_utils.py is not among the sources; its run is taken to
\* wrap a failed command in a RuntimeError, as run of
\* checkpoint_and_push_combined.py does
ProcessUtilsRunError == "RuntimeError"

\* a returned result with success=false and a message
EntryFails(e) ==
    [e EXCEPT !.success = "false", !.message = TRUE]

\* an exception leaving the function
EntryRaises(e, exception) ==
    [e EXCEPT !.raised = exception]

\* flows/checkpoint_container_kubelet.py checkpoint_container_kubelet, lines
\* 49-196: every failure sends "failed" and returns a failure response
KubeletCheckpoint(config_found, curl_ok, stdout, upload_ok) ==
    LET e0 == Progress([NoEntryResult EXCEPT !.fn = "checkpoint_container_kubelet"], <<"15">>)
        e1 == [Ran(Progress(e0, <<"30">>), "checkpoint", curl_ok) EXCEPT !.kubelet = stdout]
        e2 == Ran(Progress(e1, <<"40", "50">>), "upload", upload_ok)
    IN  IF ~config_found THEN EntryFails(Progress(e0, <<"failed">>))
        ELSE IF ~curl_ok THEN EntryFails(Progress(e1, <<"failed">>))
        ELSE IF stdout # "items" THEN EntryFails(Progress(e1, <<"failed">>))
        ELSE IF ~upload_ok THEN EntryFails(Progress(e2, <<"failed">>))
        ELSE [Progress(e2, <<"100">>) EXCEPT !.success = "true", !.message = TRUE]

\* flows/checkpoint_deployment.py checkpoint_container_kubelet, lines 47-131:
\* only RuntimeError is caught at line 129; load_cluster_config raises
\* ValueError for a cluster without configuration
DeploymentCheckpoint(config_found, curl_ok, stdout, upload_ok) ==
    LET e0 == [NoEntryResult EXCEPT !.fn = "checkpoint_deployment"]
        e1 == [Ran(e0, "checkpoint", curl_ok) EXCEPT !.kubelet = stdout]
        e2 == Ran(e1, "upload", upload_ok)
    IN  IF ~config_found THEN EntryRaises(e0, "ValueError")
        ELSE IF ~curl_ok
             THEN IF ProcessUtilsRunError = "RuntimeError" THEN EntryFails(e1)
                  ELSE EntryRaises(e1, ProcessUtilsRunError)
        ELSE IF stdout # "items" THEN EntryFails(e1)
        ELSE IF ~upload_ok THEN EntryFails(e2)
        ELSE [e2 EXCEPT !.success = "true", !.message = TRUE]

\* create_and_push_checkpoint_container.py lines 30-71: the commands in order,
\* each announced by a progress event
LegacyCommands ==
    <<[cmd |-> "buildah_from",   progress |-> "25"],
      [cmd |-> "buildah_add",    progress |-> "37.5"],
      [cmd |-> "buildah_config", progress |-> "50"],
      [cmd |-> "buildah_commit", progress |-> "62.5"],
      [cmd |-> "buildah_rm",     progress |-> "75"],
      [cmd |-> "buildah_push",   progress |-> "87.5"]>>

\* the commands run up to the first that fails; run raises there
RECURSIVE RanLegacy(_, _, _)
RanLegacy(e, i, first_fail) ==
    IF i > Len(LegacyCommands) THEN e
    ELSE IF LegacyCommands[i].cmd = first_fail
         THEN Ran(Progress(e, <<LegacyCommands[i].progress>>), LegacyCommands[i].cmd, FALSE)
         ELSE RanLegacy(Ran(Progress(e, <<LegacyCommands[i].progress>>),
                            LegacyCommands[i].cmd, TRUE),
                        i + 1, first_fail)

\* invocations of create_and_push_checkpoint_container in one behaviour
MaxPushes == 2

\* str.rstrip(ch)
RStripChar(s, ch) ==
    Call1(LAMBDA v :
            Call1(LAMBDA keep :
                    IF keep = {} THEN <<>>
                    ELSE SubSeq(v, 1, CHOOSE i \in keep : \A j \in keep : j <= i),
                  {i \in 1..Len(v) : v[i] # ch}),
          s)

\* create_and_push_checkpoint_container.py line 47: str(uuid.uuid4())[:8], a
\* fresh random value at every invocation
ShortUids == {<<"u","1">>, <<"u","2">>}

\* create_and_push_checkpoint_container.py line 49
LegacyImageTag(config_registry, pod_name, checkpoint_file_name, short_uid) ==
    RStripChar(config_registry, "/") \o Slash
        \o RStripChar(Prefix(pod_name, 6), "-") \o Dash
        \o RStripChar(Prefix(checkpoint_file_name, 6), "-")
        \o Colon \o short_uid

\* the arguments of create_and_push_checkpoint_container and the registry of
\* the configuration it names
LegacyInputs ==
    [pod_name : {<<"a","p","i","-","1","-","a","b","c">>, <<"w","e","b">>},
     container_name : {<<"c">>},
     registry : {<<"R","e","g","/">>}]

\* flows/registry/create_and_push_checkpoint_container.py, lines 10-87: both
\* handlers (lines 76-87) send "failed" and raise HTTPException; the value
\* returned at line 74 has no success key. e: the calls made before this one
CreateAndPush(e, inputs, short_uid, config_found, login_ok, first_fail) ==
    LET e0 == Progress([NoEntryResult EXCEPT !.fn = "create_and_push_checkpoint_container",
                                             !.calls = e.calls + 1,
                                             !.pushed = e.pushed],
                       <<"12.5">>)
        e1 == Ran(e0, "buildah_login", login_ok)
        e2 == RanLegacy(e1, 1, first_fail)
    IN  IF ~config_found THEN EntryRaises(Progress(e0, <<"failed">>), "HTTPException")
        ELSE IF ~login_ok THEN EntryRaises(Progress(e1, <<"failed">>), "HTTPException")
        ELSE IF first_fail # "none"
             THEN EntryRaises(Progress(e2, <<"failed">>), "HTTPException")
             ELSE [Progress(e2, <<"100">>)
                     EXCEPT !.message = TRUE,
                            !.pushed = Append(@,
                                [inputs |-> inputs,
                                 image_tag |-> LegacyImageTag(inputs.registry, inputs.pod_name,
                                                              inputs.container_name, short_uid)])]

\* routes/checkpoint.py: POST /checkpoint/kubelet/checkpoint
CheckpointContainerKubelet ==
    /\ entryRes.fn = "none"
    /\ \E config_found \in BOOLEAN :
        \E curl_ok \in IF config_found THEN BOOLEAN ELSE {TRUE} :
         \E stdout \in IF config_found /\ curl_ok THEN KubeletResponses ELSE {"none"} :
          \E upload_ok \in IF stdout = "items" THEN BOOLEAN ELSE {TRUE} :
            entryRes' = KubeletCheckpoint(config_found, curl_ok, stdout, upload_ok)
    /\ UNCHANGED <<admCall, tmpl, registry, pipeRes, admitRes, filterVars, admVars, orcVars>>

CheckpointDeployment ==
    /\ entryRes.fn = "none"
    /\ \E config_found \in BOOLEAN :
        \E curl_ok \in IF config_found THEN BOOLEAN ELSE {TRUE} :
         \E stdout \in IF config_found /\ curl_ok THEN KubeletResponses ELSE {"none"} :
          \E upload_ok \in IF stdout = "items" THEN BOOLEAN ELSE {TRUE} :
            entryRes' = DeploymentCheckpoint(config_found, curl_ok, stdout, upload_ok)
    /\ UNCHANGED <<admCall, tmpl, registry, pipeRes, admitRes, filterVars, admVars, orcVars>>

CreateAndPushCheckpointContainer ==
    /\ entryRes.fn \in {"none", "create_and_push_checkpoint_container"}
    /\ entryRes.calls < MaxPushes
    /\ \E config_found \in BOOLEAN :
        \E login_ok \in IF config_found THEN BOOLEAN ELSE {TRUE} :
         \E first_fail \in IF config_found /\ login_ok
                           THEN {"none"} \cup {LegacyCommands[i].cmd : i \in DOMAIN LegacyCommands}
                           ELSE {"none"} :
          \E inputs \in IF config_found /\ login_ok /\ first_fail = "none"
                         THEN LegacyInputs
                         ELSE {CHOOSE i \in LegacyInputs : TRUE} :
           \E short_uid \in IF config_found /\ login_ok /\ first_fail = "none"
                             THEN ShortUids
                             ELSE {CHOOSE u \in ShortUids : TRUE} :
             \E res \in {CreateAndPush(entryRes, inputs, short_uid, config_found,
                                        login_ok, first_fail)} :
                entryRes' = res
    /\ UNCHANGED <<admCall, tmpl, registry, pipeRes, admitRes, filterVars, admVars, orcVars>>

-----------------------------------------------------------------------------
(* The admission decision as a sequence of external calls: each call is    *)
(* started by the handler and ends when the other side answers or when its *)
(* timeout, if it has one, expires                                         *)

\* SnapHook/src/webhook.py line 53: the POST to SnapApi has a timeout
HttpxTimeout == 10

\* flows/proccess_utils.py is not among the sources; its run is taken to set
\* no timeout on the subprocess (0), as run of
\* checkpoint_and_push_combined.py does and as helpers.py calls it
ProcessUtilsRunTimeout == 0

NoAdmissionCall ==
    [handler |-> "none", containers |-> 0, eligible |-> FALSE, in_pod |-> FALSE,
     container |-> 0, pc |-> "idle", waiting_on |-> "none", timeout |-> 0,
     digests |-> <<>>, exists |-> <<>>]

\* snaphook.py lines 405-412 and webhook.py lines 36-48: the request arrives;
\* _process_webhook_request answers at once when the pod has no snap label or
\* no container
AdmissionReceived(handler, containers, eligible, in_pod) ==
    [NoAdmissionCall EXCEPT
        !.handler = handler, !.containers = containers, !.eligible = eligible,
        !.in_pod = in_pod,
        !.container = IF handler = "snaphook" /\ eligible /\ containers > 0 THEN 1 ELSE 0,
        !.pc = IF handler = "mutate_pods" THEN "post"
               ELSE IF eligible /\ containers > 0 THEN "digest" ELSE "responded"]

\* the handler moves on to the next container, or responds after the last
AfterContainer(c) ==
    IF c.container < c.containers
    THEN [c EXCEPT !.container = @ + 1, !.pc = "digest"]
    ELSE [c EXCEPT !.pc = "responded"]

\* helpers.py extract_digest, lines 200-215, and resolve_digest_with_skopeo,
\* lines 165-197: the digest comes from the pod status, else skopeo inspect
\* is run
DigestInspectionStarted(c) ==
    IF c.in_pod THEN [c EXCEPT !.pc = "exists", !.digests = Append(@, "pod")]
    ELSE [c EXCEPT !.waiting_on = "skopeo_inspect", !.timeout = ProcessUtilsRunTimeout]

\* helpers.py check_image_exists_multi_registry, lines 317-324: skopeo
\* inspect is run on the candidate tag; no tag (snaphook.py line 445), no probe
ExistenceProbeStarted(c, tag_ok) ==
    IF tag_ok
    THEN [c EXCEPT !.waiting_on = "skopeo_exists", !.timeout = ProcessUtilsRunTimeout]
    ELSE AfterContainer([c EXCEPT !.exists = Append(@, FALSE)])

\* webhook.py lines 49-54
SnapApiPostStarted(c) ==
    [c EXCEPT !.waiting_on = "snapapi_post", !.timeout = HttpxTimeout]

\* the call ends, with an answer (ok) or an error; every handler catches the
\* error and goes on, the digest being "unknown" after a failed inspection (helpers.py lines 194-197 and 334-337, webhook.py lines
\* 73-75)
ExternalCallEnded(c, ok) ==
    LET d == [c EXCEPT !.waiting_on = "none", !.timeout = 0]
    IN  IF c.waiting_on = "skopeo_inspect"
        THEN [d EXCEPT !.pc = "exists",
                       !.digests = Append(@, IF ok THEN "skopeo" ELSE "unknown")]
        ELSE IF c.waiting_on = "skopeo_exists"
             THEN AfterContainer([d EXCEPT !.exists = Append(@, ok)])
             ELSE [d EXCEPT !.pc = "responded", !.exists = Append(@, ok)]

ReceiveAdmissionReview ==
    /\ admCall.handler = "none"
    /\ \E handler \in {"snaphook", "mutate_pods"} :
        \E containers \in 0..MaxContainers :
         \E eligible \in BOOLEAN :
          \E in_pod \in BOOLEAN :
            admCall' = AdmissionReceived(handler, containers, eligible, in_pod)
    /\ UNCHANGED <<admVars, filterVars, orcVars, cacheVars>>

StartDigestInspection ==
    /\ admCall.pc = "digest" /\ admCall.waiting_on = "none"
    /\ admCall' = DigestInspectionStarted(admCall)
    /\ UNCHANGED <<admVars, filterVars, orcVars, cacheVars>>

StartExistenceProbe ==
    /\ admCall.pc = "exists" /\ admCall.waiting_on = "none"
    /\ \E tag_ok \in BOOLEAN : admCall' = ExistenceProbeStarted(admCall, tag_ok)
    /\ UNCHANGED <<admVars, filterVars, orcVars, cacheVars>>

StartSnapApiPost ==
    /\ admCall.pc = "post" /\ admCall.waiting_on = "none"
    /\ admCall' = SnapApiPostStarted(admCall)
    /\ UNCHANGED <<admVars, filterVars, orcVars, cacheVars>>

\* the registry, or SnapApi, answers
ExternalCallReturns ==
    /\ admCall.waiting_on # "none"
    /\ \E ok \in BOOLEAN : admCall' = ExternalCallEnded(admCall, ok)
    /\ UNCHANGED <<admVars, filterVars, orcVars, cacheVars>>

\* the timeout of a call that has one expires
ExternalCallTimesOut ==
    /\ admCall.waiting_on # "none" /\ admCall.timeout > 0
    /\ admCall' = ExternalCallEnded(admCall, FALSE)
    /\ UNCHANGED <<admVars, filterVars, orcVars, cacheVars>>

-----------------------------------------------------------------------------
(* Initial states                                                          *)

-----------------------------------------------------------------------------
(* Configuration store: flows/config/clusterCache, flows/config/clusters   *)

ClusterNames  == {"c1", "c2"}
RegistryNames == {"r1", "r2"}
RepoNames     == {"snap_images"}

\* no file config/clusterCache/<cluster>.json
NoBinding == [registry |-> "none", repo |-> "none"]

EmptyStore ==
    [clusters |-> {}, registries |-> {}, clusterCache |-> [c \in ClusterNames |-> NoBinding]]

NoConfigRequest == [op |-> "none", cluster |-> "none", registry |-> "none", success |-> FALSE]

\* ClusterCacheRequest
ClusterCacheRequests == [cluster : ClusterNames, registry : RegistryNames, repo : RepoNames]

\* create_cluster_cache.py lines 5-48: the store afterwards and the response
create_cluster_cache(store, request) ==
    IF store.clusterCache[request.cluster] # NoBinding                 \* line 10
    THEN [store |-> store, success |-> FALSE]
    ELSE IF request.cluster \notin store.clusters                      \* line 18
    THEN [store |-> store, success |-> FALSE]
    ELSE IF request.registry \notin store.registries                   \* line 26
    THEN [store |-> store, success |-> FALSE]
    ELSE [store |-> [store EXCEPT !.clusterCache[request.cluster] =
                        [registry |-> request.registry, repo |-> request.repo]],
          success |-> TRUE]

\* update_cluster_cache without the check of lines 24-30
UpdateClusterCacheNoRegistryCheck(store, request) ==
    IF store.clusterCache[request.cluster] = NoBinding
    THEN [store |-> store, success |-> FALSE]
    ELSE IF request.cluster \notin store.clusters
    THEN [store |-> store, success |-> FALSE]
    ELSE [store |-> [store EXCEPT !.clusterCache[request.cluster] =
                        [registry |-> request.registry, repo |-> request.repo]],
          success |-> TRUE]

\* update_cluster_cache.py lines 5-48
update_cluster_cache(store, request) ==
    IF store.clusterCache[request.cluster] = NoBinding                 \* line 10
    THEN [store |-> store, success |-> FALSE]
    ELSE IF request.cluster \notin store.clusters                      \* line 18
    THEN [store |-> store, success |-> FALSE]
    ELSE IF request.registry \notin store.registries                   \* line 26
    THEN [store |-> store, success |-> FALSE]
    ELSE [store |-> [store EXCEPT !.clusterCache[request.cluster] =
                        [registry |-> request.registry, repo |-> request.repo]],
          success |-> TRUE]

\* delete_cluster_cache.py lines 8-32
delete_cluster_cache(store, cluster) ==
    IF store.clusterCache[cluster] = NoBinding
    THEN [store |-> store, success |-> FALSE]
    ELSE [store |-> [store EXCEPT !.clusterCache[cluster] = NoBinding], success |-> TRUE]

\* create_cluster_config.py lines 42-100; registry: the optional registry
\* name of the request ("none": not given)
create_cluster_config(store, name, registry_, repo) ==
    IF name \in store.clusters
    THEN [store |-> store, success |-> FALSE]
    ELSE Call1(LAMBDA written :
                 IF registry_ = "none" THEN [store |-> written, success |-> TRUE]
                 ELSE create_cluster_cache(written, [cluster |-> name, registry |-> registry_,
                                                     repo |-> repo]),
               [store EXCEPT !.clusters = @ \cup {name}])

\* delete_cluster_config.py lines 13-60: the cluster file, then its cache
delete_cluster_config(store, name) ==
    IF name \notin store.clusters
    THEN [store |-> store, success |-> FALSE]
    ELSE [store |-> delete_cluster_cache([store EXCEPT !.clusters = @ \ {name}], name).store,
          success |-> TRUE]

Handled(op, cluster, registry_, out) ==
    /\ cfgStore' = out.store
    /\ cfgRes' = [op |-> op, cluster |-> cluster, registry |-> registry_,
                  success |-> out.success]
    /\ UNCHANGED <<orcIn, orcOut, codec, resolver, detect, admCall, filterVars, admVars, cacheVars>>
    /\ UNCHANGED <<inflight, stream, ctl, hooks>>

CreateClusterCache ==
    \E request \in ClusterCacheRequests :
      \E out \in {create_cluster_cache(cfgStore, request)} :
        Handled("create_cluster_cache", request.cluster, request.registry, out)

UpdateClusterCache ==
    \E request \in ClusterCacheRequests :
      \E out \in {update_cluster_cache(cfgStore, request)} :
        Handled("update_cluster_cache", request.cluster, request.registry, out)

DeleteClusterCache ==
    \E cluster \in ClusterNames :
      \E out \in {delete_cluster_cache(cfgStore, cluster)} :
        Handled("delete_cluster_cache", cluster, "none", out)

CreateClusterConfig ==
    \E name \in ClusterNames, registry_ \in RegistryNames \cup {"none"}, repo \in RepoNames :
      \E out \in {create_cluster_config(cfgStore, name, registry_, repo)} :
        Handled("create_cluster_config", name, registry_, out)

DeleteClusterConfig ==
    \E name \in ClusterNames :
      \E out \in {delete_cluster_config(cfgStore, name)} :
        Handled("delete_cluster_config", name, "none", out)

\* the two labels the watch is registered with, as a pod carries them
StreamLabels ==
    [snap : {None, Some(TrueStr), Some(FalseStr)}, mutated : {None, Some(TrueStr)}]

NoStreamEvent ==
    [handler |-> "none", labels |-> [snap |-> None, mutated |-> None],
     delivered |-> FALSE, triggered |-> FALSE]

\* the registration with the test of snap.weaversoft.io/mutated left out
KopfLabelsMatchSnapOnly(labels) == labels.snap # None

\* classes/operator_watcher.py lines 301-307, SnapWatcher/src/operator.py
\* lines 20-26: the handler is registered for pods on which
\* snap.weaversoft.io/snap is PRESENT and snap.weaversoft.io/mutated is ABSENT
KopfLabelsMatch(labels) == labels.snap # None /\ labels.mutated = None

\* classes/operator_watcher.py lines 301-322 and 142-277: an event of the pod
\* watch; on_pod_event, then handle_pod_event, run only when the labels of
\* the pod match the registration
WatchPodsOperator ==
    /\ nEvents < MaxEvents
    /\ \E evt \in PodEvents, labels \in StreamLabels :
       \E outcome \in IF KopfLabelsMatch(labels) /\ OperatorDispatches(evt) /\ OperatorGuard(evt)
                       THEN {"success", "failure", "raised"} ELSE {"none"} :
        LET delivered == KopfLabelsMatch(labels)
            invoke == delivered /\ OperatorDispatches(evt) /\ OperatorGuard(evt)
            steps  == OperatorSteps(invoke, outcome, operator.auto_delete_pod)
        IN  /\ operatorCalls' =
                  IF invoke
                  THEN [operatorCalls EXCEPT ![evt.uid] = @ + 1]
                  ELSE operatorCalls
            /\ deletedPods' =
                  IF \E i \in DOMAIN steps : steps[i] = "delete_pod"
                  THEN deletedPods \cup {evt.uid}
                  ELSE deletedPods
            /\ lastEvt' =
                  IF delivered
                  THEN [handler |-> "operator", evt |-> evt, triggered |-> invoke,
                        outcome |-> outcome, steps |-> steps]
                  ELSE lastEvt
            /\ stream' = [handler |-> "operator", labels |-> labels,
                           delivered |-> delivered, triggered |-> invoke]
    /\ nEvents' = nEvents + 1
    /\ UNCHANGED <<alreadyCheckpointed, watcherCalls, operator>>
    /\ UNCHANGED <<admCall, admVars, cacheVars>>
    /\ UNCHANGED <<orcIn, orcOut, codec, resolver, detect, storeVars, inflight, ctl, hooks>>

\* SnapWatcher/src/operator.py lines 20-150: an event of the pod watch;
\* on_pod_event runs only when the labels of the pod match the registration
WatchPodsWatcher ==
    /\ nEvents < MaxEvents
    /\ \E evt \in PodEvents, labels \in StreamLabels :
       \E tokenFile \in IF KopfLabelsMatch(labels) /\ WatcherGuard(evt)
                            /\ evt.uid \notin alreadyCheckpointed
                         THEN BOOLEAN ELSE {FALSE} :
       \E outcome \in WatcherOutcomes(KopfLabelsMatch(labels) /\ WatcherGuard(evt),
                                      evt.uid \notin alreadyCheckpointed, tokenFile) :
        LET delivered == KopfLabelsMatch(labels)
            pass    == delivered /\ WatcherGuard(evt)
            fresh   == evt.uid \notin alreadyCheckpointed
            request == pass /\ fresh /\ tokenFile
        IN  /\ alreadyCheckpointed' = DedupAfter(alreadyCheckpointed, evt.uid, pass, outcome)
            /\ watcherCalls' =
                  IF request
                  THEN [watcherCalls EXCEPT ![evt.uid] = @ + 1]
                  ELSE watcherCalls
            /\ lastEvt' =
                  IF delivered
                  THEN [handler |-> "watcher", evt |-> evt, triggered |-> request,
                        outcome |-> outcome,
                        steps |-> WatcherSteps(pass, fresh, tokenFile)]
                  ELSE lastEvt
            /\ stream' = [handler |-> "watcher", labels |-> labels,
                           delivered |-> delivered, triggered |-> request]
    /\ nEvents' = nEvents + 1
    /\ UNCHANGED <<operatorCalls, deletedPods, operator>>
    /\ UNCHANGED <<admCall, admVars, cacheVars>>
    /\ UNCHANGED <<orcIn, orcOut, codec, resolver, detect, storeVars, inflight, ctl, hooks>>

\* classes/operator_watcher.py line 281: no operator until one is created
NoOperator ==
    [set |-> FALSE, scope |-> "cluster", namespace |-> "ns1", auto_delete_pod |-> TRUE]

\* SnapWatcherOperator.__init__: scope "namespace" requires a namespace
OperatorConfigs ==
    {NoOperator} \cup
    {[set |-> TRUE, scope |-> sc, namespace |-> "ns1", auto_delete_pod |-> ad] :
        sc \in {"cluster", "namespace"}, ad \in BOOLEAN}

-----------------------------------------------------------------------------
(* Operator control plane (routes/operator.py): the module globals, the    *)
(* kopf threads started so far and the stored SnapWatcher configurations   *)

MaxThreads == 2

WatcherNames == {"w1", "w2"}

\* flows/config/watcher/watcher_config.py WatcherConfig: no file of that name
NoWatcherConfig ==
    [exists |-> FALSE, status |-> "stopped", scope |-> "cluster", auto_delete_pod |-> TRUE]

\* routes/operator.py lines 23-29: operator_running, active_watchers; threads
\* counts the threads in which kopf.run is running, owner names the watcher
\* from whose configuration the global operator instance was built ("api":
\* from a request to /start)
ControlIdle ==
    [configs |-> [n \in WatcherNames |-> NoWatcherConfig],
     operator_running |-> FALSE, active_watchers |-> {}, threads |-> 0,
     owner |-> "none"]

\* SnapWatcherOperator(...): the instance the handlers read
OperatorFor(scope, auto_delete_pod) ==
    [set |-> TRUE, scope |-> scope, namespace |-> "ns1", auto_delete_pod |-> auto_delete_pod]

\* the globals of routes/operator.py and the global operator of
\* classes/operator_watcher.py together
World == [c |-> ctl, op |-> operator]

\* routes/operator.py start_operator, lines 88-164: refused while
\* operator_running; else the instance is built and made the global
\* operator, a thread running kopf.run is started, operator_running is set;
\* an exception on the way clears operator_running
start_operator(w, owner, scope, auto_delete_pod, ctor_ok) ==
    IF w.c.operator_running THEN [w |-> w, ok |-> FALSE]
    ELSE IF ~ctor_ok THEN [w |-> w, ok |-> FALSE]
    ELSE [w |-> [c |-> [w.c EXCEPT !.operator_running = TRUE, !.threads = @ + 1,
                                   !.owner = owner],
                 op |-> OperatorFor(scope, auto_delete_pod)],
          ok |-> TRUE]

\* routes/operator.py stop_operator, lines 167-206: the globals are cleared;
\* the thread is not stopped ("kopf.run() doesn't have a direct stop method")
stop_operator(w) ==
    IF ~w.c.operator_running THEN w
    ELSE [c |-> [w.c EXCEPT !.operator_running = FALSE, !.owner = "none"],
          op |-> NoOperator]

\* lines 324-333 and 574-583: the watcher is entered in active_watchers and
\* its stored status becomes "running"
MarkRunning(w, name) ==
    [w EXCEPT !.c.active_watchers = @ \cup {name},
              !.c.configs[name].status = "running"]

\* routes/operator.py create_snapwatcher, lines 267-355: the configuration is
\* saved as stopped; a running operator is stopped; the operator is started
\* with the request's settings
create_snapwatcher(w, name, scope, auto_delete_pod, ctor_ok) ==
    IF w.c.configs[name].exists THEN w
    ELSE LET saved == [w EXCEPT !.c.configs[name] =
                          [exists |-> TRUE, status |-> "stopped", scope |-> scope,
                           auto_delete_pod |-> auto_delete_pod]]
             started == start_operator(stop_operator(saved), name, scope,
                                       auto_delete_pod, ctor_ok)
         IN  IF started.ok THEN MarkRunning(started.w, name) ELSE started.w

\* routes/operator.py start_snapwatcher, lines 538-599: the start request is
\* built from cluster_name, cluster_config, scope and namespace of the stored
\* configuration; auto_delete_pod is not passed and takes the default of
\* OperatorStartRequest, True (line 38)
start_snapwatcher(w, name, ctor_ok) ==
    IF ~w.c.configs[name].exists \/ w.c.configs[name].status = "running" THEN w
    ELSE LET started == start_operator(w, name, w.c.configs[name].scope, TRUE, ctor_ok)
         IN  IF started.ok THEN MarkRunning(started.w, name) ELSE started.w

\* routes/operator.py stop_snapwatcher, lines 602-646
stop_snapwatcher(w, name) ==
    IF ~w.c.configs[name].exists \/ w.c.configs[name].status # "running" THEN w
    ELSE [stop_operator(w) EXCEPT !.c.active_watchers = @ \ {name},
                                  !.c.configs[name].status = "stopped"]

\* routes/operator.py delete_snapwatcher, lines 494-535
delete_snapwatcher(w, name) ==
    IF ~w.c.configs[name].exists THEN w
    ELSE [stop_snapwatcher(w, name) EXCEPT !.c.configs[name] = NoWatcherConfig]

\* routes/operator.py start_individual_watcher, lines 703-756, for each of the
\* watchers in names: an instance is built and kept in active_watchers only
\* (set_global_operator is not called), a thread running kopf.run is started,
\* the stored status becomes "running"; "error" when the instance cannot be
\* built
start_individual_watcher(w, names, ctor_ok) ==
    IF ctor_ok
    THEN [w EXCEPT !.c.threads = @ + Cardinality(names),
                   !.c.active_watchers = @ \cup names,
                   !.c.configs = [n \in WatcherNames |->
                                     IF n \in names THEN [@[n] EXCEPT !.status = "running"]
                                     ELSE @[n]]]
    ELSE [w EXCEPT !.c.configs = [n \in WatcherNames |->
                                     IF n \in names THEN [@[n] EXCEPT !.status = "error"]
                                     ELSE @[n]]]

\* routes/operator.py load_watcher_configs_on_startup, lines 759-811, in a
\* fresh process: the stored "running" statuses are set to "stopped"; unless
\* WATCHER_MODE is compose, every configuration whose loaded status is not
\* "running" is started
load_watcher_configs_on_startup(w, watcher_mode, ctor_ok) ==
    LET loaded  == w.c.configs
        fresh   == [c |-> [ControlIdle EXCEPT
                              !.configs = [n \in WatcherNames |->
                                  IF loaded[n].status = "running"
                                  THEN [loaded[n] EXCEPT !.status = "stopped"]
                                  ELSE loaded[n]]],
                    op |-> NoOperator]
        toStart == {n \in WatcherNames : loaded[n].exists /\ loaded[n].status # "running"}
    IN  IF watcher_mode = "compose" THEN fresh
        ELSE start_individual_watcher(fresh, toStart, ctor_ok)

\* the world after a request, with the rest of the state left alone
Becomes(w) ==
    /\ w.c.threads <= MaxThreads
    /\ ctl' = w.c
    /\ operator' = w.op
    /\ UNCHANGED <<alreadyCheckpointed, watcherCalls, operatorCalls, deletedPods, lastEvt, nEvents>>
    /\ UNCHANGED <<admCall, admVars, cacheVars>>
    /\ UNCHANGED <<orcIn, orcOut, codec, resolver, detect, storeVars, inflight, stream, hooks>>

\* POST /operator/start
StartOperator ==
    \E scope \in {"cluster", "namespace"}, auto_delete_pod \in BOOLEAN, ctor_ok \in BOOLEAN :
      \E out \in {start_operator(World, "api", scope, auto_delete_pod, ctor_ok)} :
        Becomes(out.w)

\* POST /operator/stop
StopOperator == \E w \in {stop_operator(World)} : Becomes(w)

\* POST /operator/snapwatcher
CreateSnapwatcher ==
    \E name \in WatcherNames, scope \in {"cluster"},
       auto_delete_pod \in BOOLEAN, ctor_ok \in BOOLEAN :
      \E w \in {create_snapwatcher(World, name, scope, auto_delete_pod, ctor_ok)} : Becomes(w)

\* POST /operator/snapwatcher/{watcher_name}/start
StartSnapwatcher ==
    \E name \in WatcherNames, ctor_ok \in BOOLEAN :
      \E w \in {start_snapwatcher(World, name, ctor_ok)} : Becomes(w)

\* POST /operator/snapwatcher/{watcher_name}/stop
StopSnapwatcher ==
    \E name \in WatcherNames : \E w \in {stop_snapwatcher(World, name)} : Becomes(w)

\* DELETE /operator/snapwatcher/{watcher_name}
DeleteSnapwatcher ==
    \E name \in WatcherNames : \E w \in {delete_snapwatcher(World, name)} : Becomes(w)

\* the API process starts again: app.py calls load_watcher_configs_on_startup
Startup ==
    \E watcher_mode \in {"kubernetes", "compose"}, ctor_ok \in BOOLEAN :
      \E w \in {load_watcher_configs_on_startup(World, watcher_mode, ctor_ok)} : Becomes(w)

\* routes/operator.py run_operator, lines 88-101: kopf.run raises in one of
\* the threads, which clears operator_running and ends
RunOperatorFails ==
    /\ ctl.threads > 0
    /\ \E w \in {[World EXCEPT !.c.threads = @ - 1, !.c.operator_running = FALSE]} :
         Becomes(w)

\* a pod event that passes the guard of handle_pod_event
EligibleEvent(u) ==
    [type |-> "MODIFIED", uid |-> u, namespace |-> PodNamespace(u),
     deletionTimestamp |-> FALSE, phase |-> "Running",
     conditions |-> <<[type |-> "Ready", status |-> "True"]>>,
     containerStatuses |-> <<[running |-> TRUE, started |-> TRUE]>>]

\* classes/operator_watcher.py lines 301-322 and 142-277 under the threads of
\* routes/operator.py: every thread in which kopf.run is running watches the
\* pods and calls on_pod_event for the event, which dispatches to the global
\* operator
WatchLoopsDeliver ==
    /\ nEvents < MaxEvents
    /\ ctl.threads > 0
    /\ \E u \in UIDs :
       \E outcome \in IF OperatorDispatches(EligibleEvent(u)) /\ OperatorGuard(EligibleEvent(u))
                       THEN {"success", "failure"} ELSE {"none"} :
        LET evt    == EligibleEvent(u)
            invoke == OperatorDispatches(evt) /\ OperatorGuard(evt)
            steps  == OperatorSteps(invoke, outcome, operator.auto_delete_pod)
        IN  /\ operatorCalls' =
                  IF invoke
                  THEN [operatorCalls EXCEPT ![u] = @ + ctl.threads]
                  ELSE operatorCalls
            /\ deletedPods' =
                  IF \E i \in DOMAIN steps : steps[i] = "delete_pod"
                  THEN deletedPods \cup {u}
                  ELSE deletedPods
            /\ lastEvt' = [handler |-> "operator", evt |-> evt, triggered |-> invoke,
                            outcome |-> outcome, steps |-> steps]
    /\ nEvents' = nEvents + 1
    /\ UNCHANGED <<alreadyCheckpointed, watcherCalls, operator, ctl>>
    /\ UNCHANGED <<admCall, admVars, cacheVars>>
    /\ UNCHANGED <<orcIn, orcOut, codec, resolver, detect, storeVars, inflight, stream, hooks>>

-----------------------------------------------------------------------------
(* Shared webhook listener (classes/shared_https_server.py)                *)

\* names of SnapHooks; a name may hold '-'
HookNames == { <<"a">>, <<"m","y">>, <<"m","y","-","h","k">> }

SnaphookPrefix == <<"s","n","a","p","h","o","o","k","-">>
WeaversoftIo   == <<".","w","e","a","v","e","r","s","o","f","t",".","i","o">>

\* snaphook.py line 309: the name of the hook's MutatingWebhookConfiguration
WebhookConfigurationName(hook_name) == SnaphookPrefix \o hook_name \o Dash \o CfgCluster

\* snaphook.py line 326: the name of the hook's webhook
WebhookName(hook_name) == SnaphookPrefix \o hook_name \o WeaversoftIo

\* the request object of an AdmissionReview as the listener reads it: the
\* keys "webhook", "webhookConfigurationName" and "webhookName", each absent
\* or naming the hook the request is meant for
HookRequest(designated, form) ==
    [designated |-> designated, form |-> form,
     webhook |-> IF form = "webhook" THEN Some(designated) ELSE None,
     webhookConfigurationName |->
        IF form = "configurationName" THEN Some(WebhookConfigurationName(designated)) ELSE None,
     webhookName |-> IF form = "webhookName" THEN Some(WebhookName(designated)) ELSE None]

HookRequests ==
    {HookRequest(d, f) : d \in HookNames,
                         f \in {"webhook", "configurationName", "webhookName", "none"}}

\* hook_handlers is a dict: its keys in insertion order
NoHooks ==
    [hook_handlers |-> <<>>, request |-> HookRequest(<<"a">>, "none"),
     handled |-> FALSE, hook_name |-> None, handler |-> None]

Registered(hook_handlers, hook_name) ==
    \E i \in DOMAIN hook_handlers : hook_handlers[i] = hook_name

\* classes/shared_https_server.py _determine_hook_from_request, lines 89-128:
\* the "webhook" key; else the second '-'-separated part of
\* webhookConfigurationName when registered; else the part of webhookName
\* between the first '-' and the next '.' when registered; else the first key
\* of hook_handlers
DetermineHookFromRequest(hook_handlers, request) ==
    LET byConfig ==
            IF Truthy(request.webhookConfigurationName)
               /\ StartsWith(request.webhookConfigurationName[1], SnaphookPrefix)
               /\ Len(Split(request.webhookConfigurationName[1], "-")) >= 3
               /\ Registered(hook_handlers, Split(request.webhookConfigurationName[1], "-")[2])
            THEN Some(Split(request.webhookConfigurationName[1], "-")[2])
            ELSE None
        byName ==
            IF Truthy(request.webhookName)
               /\ StartsWith(request.webhookName[1], SnaphookPrefix)
               /\ Contains(request.webhookName[1], WeaversoftIo)
               /\ Registered(hook_handlers, Split(Split(request.webhookName[1], "-")[2], ".")[1])
            THEN Some(Split(Split(request.webhookName[1], "-")[2], ".")[1])
            ELSE None
    IN  IF request.webhook # None THEN request.webhook
        ELSE IF byConfig # None THEN byConfig
        ELSE IF byName # None THEN byName
        ELSE IF hook_handlers # <<>> THEN Some(hook_handlers[1])
        ELSE None

\* _route_to_hook, lines 44-87: the handler registered under the determined
\* name is called; without one the default reply is sent
RouteToHook(hook_handlers, request) ==
    Call1(LAMBDA hook_name :
            [hook_name |-> hook_name,
             handler |-> IF hook_name # None /\ Registered(hook_handlers, hook_name[1])
                         THEN hook_name ELSE None],
          DetermineHookFromRequest(hook_handlers, request))

HooksFrame ==
    /\ UNCHANGED <<filterVars, admCall, admVars, cacheVars>>
    /\ UNCHANGED <<orcIn, orcOut, codec, resolver, detect, storeVars, inflight, stream, ctl>>

\* SharedHTTPServerManager.register_hook_handler, lines 295-308
RegisterHookHandler ==
    /\ \E hook_name \in HookNames :
         hooks' = [hooks EXCEPT !.hook_handlers =
                      IF Registered(@, hook_name) THEN @ ELSE Append(@, hook_name)]
    /\ HooksFrame

\* SharedHTTPServerManager.unregister_hook_handler, lines 310-320
UnregisterHookHandler ==
    /\ \E hook_name \in HookNames :
         hooks' = [hooks EXCEPT !.hook_handlers = SelectSeq(@, LAMBDA h : h # hook_name)]
    /\ HooksFrame

\* SharedWebhookHandler.do_POST -> _route_to_hook, lines 18-87
DoPost ==
    /\ \E request \in HookRequests :
        \E out \in {RouteToHook(hooks.hook_handlers, request)} :
         hooks' = [hooks EXCEPT !.request = request, !.handled = TRUE,
                                !.hook_name = out.hook_name, !.handler = out.handler]
    /\ HooksFrame

FilterIdle ==
    /\ alreadyCheckpointed = {}
    /\ watcherCalls = [u \in UIDs |-> 0]
    /\ operatorCalls = [u \in UIDs |-> 0]
    /\ deletedPods = {}
    /\ lastEvt = [handler |-> "none", evt |-> NoEvent, triggered |-> FALSE,
                  outcome |-> "none", steps |-> <<>>]
    /\ nEvents = 0

OrcIdle ==
    /\ orcIn = NoOracleInput
    /\ orcOut = NoOracleCall
    /\ codec = NoCodecCall
    /\ resolver = NoResolverCall
    /\ detect = <<>>
    /\ cfgStore = EmptyStore
    /\ cfgRes = NoConfigRequest
    /\ inflight = <<>>
    /\ stream = NoStreamEvent
    /\ ctl = ControlIdle
    /\ hooks = NoHooks

AdmIdle ==
    /\ admReq = [handler |-> "none", req |-> NoRequest,
                 env |-> [cfg |-> "ok", inspected |-> None, answers |-> <<>>, api |-> "200"]]
    /\ admResp = NoResponse
    /\ admOracle = <<>>
    /\ admCall = NoAdmissionCall

CacheIdle ==
    /\ registry = {}
    /\ pipeRes = NoPipelineResult
    /\ admitRes = NoAdmitResult
    /\ entryRes = NoEntryResult

-----------------------------------------------------------------------------
(* The event filter: pod events reach the SnapWatcher handler and the      *)
(* integrated operator's handler                                           *)

InitFilter ==
    /\ FilterIdle
    /\ operator \in OperatorConfigs
    /\ OrcIdle /\ AdmIdle /\ CacheIdle /\ tmpl = NoTemplate

NextFilter == OnPodEvent \/ HandlePodEvent

SpecFilter == InitFilter /\ [][NextFilter]_vars

-----------------------------------------------------------------------------
(* Interleaved handlers: the SnapWatcher handler has no await and runs to  *)
(* its end; the integrated operator's handler is suspended at the pipeline *)
(* call                                                                    *)

InitInterleave ==
    /\ FilterIdle
    /\ operator \in OperatorConfigs
    /\ OrcIdle /\ AdmIdle /\ CacheIdle /\ tmpl = NoTemplate

NextInterleave == OnPodEvent \/ HandlePodEventBegins \/ HandlePodEventResumes

SpecInterleave == InitInterleave /\ [][NextInterleave]_vars

-----------------------------------------------------------------------------
(* The pod watch: events of pods with any labels, of which the handlers    *)
(* see those that match their registration                                 *)

InitWatch ==
    /\ FilterIdle
    /\ operator \in OperatorConfigs
    /\ OrcIdle /\ AdmIdle /\ CacheIdle /\ tmpl = NoTemplate

NextWatch == WatchPodsOperator \/ WatchPodsWatcher

SpecWatch == InitWatch /\ [][NextWatch]_vars

-----------------------------------------------------------------------------
(* The control plane: requests to the operator routes, restarts of the API *)
(* process, and pod events under the threads they leave running            *)

InitControl ==
    /\ FilterIdle /\ operator = NoOperator
    /\ OrcIdle /\ AdmIdle /\ CacheIdle /\ tmpl = NoTemplate

NextControl ==
    \/ StartOperator \/ StopOperator
    \/ CreateSnapwatcher \/ StartSnapwatcher \/ StopSnapwatcher \/ DeleteSnapwatcher
    \/ Startup \/ RunOperatorFails
    \/ WatchLoopsDeliver

SpecControl == InitControl /\ [][NextControl]_vars

-----------------------------------------------------------------------------
(* The shared listener: hooks register and unregister, requests arrive     *)

InitHooks ==
    /\ FilterIdle /\ operator = NoOperator
    /\ OrcIdle /\ AdmIdle /\ CacheIdle /\ tmpl = NoTemplate

NextHooks == RegisterHookHandler \/ UnregisterHookHandler \/ DoPost

SpecHooks == InitHooks /\ [][NextHooks]_vars

-----------------------------------------------------------------------------
(* The oracle: existence checks on 7-tuples                                *)

InitOracle ==
    /\ OrcIdle
    /\ FilterIdle /\ operator = NoOperator
    /\ AdmIdle /\ CacheIdle /\ tmpl = NoTemplate

NextOracle == CheckImageExistsHelpers \/ CheckImageExistsPod

SpecOracle == InitOracle /\ [][NextOracle]_vars

-----------------------------------------------------------------------------
(* The codec: one tag is generated and parsed back, or one string parsed   *)

InitCodec ==
    /\ OrcIdle
    /\ FilterIdle /\ operator = NoOperator
    /\ AdmIdle /\ CacheIdle /\ tmpl = NoTemplate

NextCodec == GenerateImageTag \/ ParseGeneratedTag \/ ParseImageTag

SpecCodec == InitCodec /\ [][NextCodec]_vars

-----------------------------------------------------------------------------
(* The configuration store: requests on cluster files and cache bindings,  *)
(* with some registry entries present                                      *)

InitStore ==
    /\ orcIn = NoOracleInput /\ orcOut = NoOracleCall /\ codec = NoCodecCall
    /\ resolver = NoResolverCall /\ detect = <<>>
    /\ cfgStore \in {[EmptyStore EXCEPT !.registries = r] : r \in SUBSET RegistryNames}
    /\ cfgRes = NoConfigRequest
    /\ inflight = <<>>
    /\ stream = NoStreamEvent
    /\ ctl = ControlIdle
    /\ hooks = NoHooks
    /\ FilterIdle /\ operator = NoOperator
    /\ AdmIdle /\ CacheIdle /\ tmpl = NoTemplate

NextStore ==
    \/ CreateClusterCache \/ UpdateClusterCache \/ DeleteClusterCache
    \/ CreateClusterConfig \/ DeleteClusterConfig

SpecStore == InitStore /\ [][NextStore]_vars

-----------------------------------------------------------------------------
(* Flavor detection: the existence checks of one process                   *)

InitDetect ==
    /\ OrcIdle
    /\ FilterIdle /\ operator = NoOperator
    /\ AdmIdle /\ CacheIdle /\ tmpl = NoTemplate

NextDetect == CheckImageExistsMultiRegistry

SpecDetect == InitDetect /\ [][NextDetect]_vars

-----------------------------------------------------------------------------
(* The digest resolver: one call of extract_digest                         *)

InitResolver ==
    /\ OrcIdle
    /\ FilterIdle /\ operator = NoOperator
    /\ AdmIdle /\ CacheIdle /\ tmpl = NoTemplate

NextResolver == ExtractDigest

SpecResolver == InitResolver /\ [][NextResolver]_vars

-----------------------------------------------------------------------------
(* The admission decision: one AdmissionReview request is handled          *)

InitAdmission ==
    /\ AdmIdle
    /\ FilterIdle /\ operator = NoOperator
    /\ OrcIdle /\ CacheIdle /\ tmpl = NoTemplate

NextAdmission == ProcessWebhookRequest \/ MutatePods

SpecAdmission == InitAdmission /\ [][NextAdmission]_vars

-----------------------------------------------------------------------------
(* The cache: the pipeline pushes the image of a running pod, and a        *)
(* replacement pod of the same template is admitted                        *)

InitCache ==
    /\ tmpl \in Templates
    /\ CacheIdle
    /\ FilterIdle /\ operator = NoOperator
    /\ OrcIdle /\ AdmIdle

NextCache == RunPipeline \/ AdmitPod

SpecCache == InitCache /\ [][NextCache]_vars

-----------------------------------------------------------------------------
(* The pipeline: one invocation on a running pod, and one call of another  *)
(* entry point                                                             *)

\* the templates of pods the operator hands to the pipeline
PipelineTemplates ==
    {t \in Templates : /\ t.appName = None
                       /\ t.app \in {None, Some(<<"a","p","i">>)}
                       /\ t.hash \in {None, Some(<<"h","1">>)}}

InitPipeline ==
    /\ tmpl \in PipelineTemplates
    /\ CacheIdle
    /\ FilterIdle /\ operator = NoOperator
    /\ OrcIdle /\ AdmIdle

NextPipeline ==
    \/ RunPipeline
    \/ CheckpointContainerKubelet \/ CheckpointDeployment
    \/ CreateAndPushCheckpointContainer

SpecPipeline == InitPipeline /\ [][NextPipeline]_vars

-----------------------------------------------------------------------------
(* Termination of the admission decision: the handler's own steps and the  *)
(* expiry of a timeout always happen; the other side may never answer      *)

InitTermination ==
    /\ AdmIdle
    /\ FilterIdle /\ operator = NoOperator
    /\ OrcIdle /\ CacheIdle /\ tmpl = NoTemplate

HandlerSteps ==
    \/ StartDigestInspection \/ StartExistenceProbe \/ StartSnapApiPost
    \/ ExternalCallTimesOut

NextTermination ==
    \/ ReceiveAdmissionReview
    \/ HandlerSteps
    \/ ExternalCallReturns

SpecTermination ==
    InitTermination /\ [][NextTermination]_vars /\ WF_vars(HandlerSteps)

-----------------------------------------------------------------------------
(* Properties of the event filter                                          *)

\* C1: for every pod UID the pipeline is invoked at most once in a process
\* lifetime, by the SnapWatcher handler and by the integrated operator alike
C1_AtMostOncePerUid ==
    \A u \in UIDs : watcherCalls[u] <= 1 /\ operatorCalls[u] <= 1

\* C10: an event of type DELETED, or whose pod carries a deletion timestamp,
\* never invokes the pipeline, whatever its phase, readiness and containers
C10_DeletionNeverTriggers ==
    (lastEvt.handler # "none" /\ (lastEvt.evt.type = "DELETED" \/ lastEvt.evt.deletionTimestamp))
        => ~lastEvt.triggered

\* an otherwise eligible pod with a deletion timestamp was handled and skipped
C10_Witness ==
    /\ lastEvt.handler = "watcher"
    /\ lastEvt.evt.type = "MODIFIED"
    /\ lastEvt.evt.deletionTimestamp
    /\ lastEvt.evt.phase = "Running"
    /\ IsReady(lastEvt.evt.conditions)
    /\ AnyStarted(lastEvt.evt.containerStatuses)
    /\ lastEvt.evt.uid \notin alreadyCheckpointed
    /\ ~lastEvt.triggered

\* C11: the pipeline is invoked only for events where all guard conditions
\* hold together: not DELETED, no deletion timestamp, phase Running, a
\* condition of type Ready with status True, and a container status that is
\* running with started=true
C11_TriggerOnlyWhenGuardHolds ==
    LET holds(evt) ==
            /\ evt.type # "DELETED"
            /\ ~evt.deletionTimestamp
            /\ evt.phase = "Running"
            /\ \E i \in DOMAIN evt.conditions :
                  evt.conditions[i] = [type |-> "Ready", status |-> "True"]
            /\ \E i \in DOMAIN evt.containerStatuses :
                  evt.containerStatuses[i] = [running |-> TRUE, started |-> TRUE]
    IN  /\ lastEvt.triggered => holds(lastEvt.evt)
        /\ \A evt \in PodEvents : FlowsGuard(evt) => holds(evt)

\* two events were delivered, and the integrated operator invoked the
\* pipeline for the pod of the last one, which passed the guard
C11_Witness ==
    /\ lastEvt.handler = "operator"
    /\ lastEvt.triggered
    /\ operatorCalls[lastEvt.evt.uid] = 1
    /\ nEvents = 2

\* C12: delete_pod is issued only after the pipeline call for that pod
\* returned success, and only with auto-delete enabled; after a failure
\* result or an exception the pod is never deleted
C12_DeleteOnlyAfterSuccess ==
    [][/\ \A u \in deletedPods' \ deletedPods :
            /\ lastEvt'.evt.uid = u
            /\ lastEvt'.outcome = "success"
            /\ operator.auto_delete_pod
            /\ lastEvt'.steps = <<"pipeline", "delete_pod">>
       /\ lastEvt'.outcome \in {"failure", "raised"} =>
            /\ deletedPods' = deletedPods
            /\ \A i \in DOMAIN lastEvt'.steps : lastEvt'.steps[i] # "delete_pod"]_vars

\* the pipeline failed for a pod under an operator with auto-delete, and the
\* pod was not deleted
C12_Witness ==
    /\ lastEvt.handler = "operator"
    /\ lastEvt.triggered
    /\ lastEvt.outcome = "failure"
    /\ operator.auto_delete_pod
    /\ lastEvt.evt.uid \notin deletedPods

-----------------------------------------------------------------------------
(* Properties of the admission decision                                    *)

ImagePatches == {i \in DOMAIN admResp.patches : admResp.patches[i].kind = "image"}
LabelPatches == {i \in DOMAIN admResp.patches : admResp.patches[i].kind = "label"}

\* C2: the admission decision is fail-open: every response has allowed=true,
\* and a request on which an internal step failed gets no patch
C2_FailOpen ==
    admReq.handler # "none" => (admResp.replied /\ admResp.allowed)

\* C3: every image-replace patch carries a tag for which the oracle answered
\* true while the same request was handled
C3_PatchedTagWasChecked ==
    admReq.handler # "none" =>
        \A i \in ImagePatches :
            \E q \in DOMAIN admOracle :
                admOracle[q].result /\ admOracle[q].ref = admResp.patches[i].value

\* C4: when the oracle answers true for an eligible pod with N >= 1 containers
\* the patch is exactly one image replacement per container index 0..N-1 plus
\* exactly one label operation, with allowed=true
C4_OnePatchPerContainerPlusLabel ==
    (/\ admReq.handler # "none"
     /\ Len(admOracle) >= 1
     /\ \A q \in DOMAIN admOracle : admOracle[q].result
     /\ Len(admReq.req.containers) >= 1)
        => /\ admResp.allowed
           /\ Len(admResp.patches) = Len(admReq.req.containers) + 1
           /\ Cardinality(LabelPatches) = 1
           /\ \A c \in 0..(Len(admReq.req.containers) - 1) :
                 Cardinality({i \in ImagePatches : admResp.patches[i].index = c}) = 1

\* C5: when the oracle answers false for the pod's candidate tag, the
\* response has allowed=true and neither a patch nor a patchType
C5_NotExistsNoPatch ==
    (/\ admReq.handler # "none"
     /\ Len(admOracle) >= 1
     /\ \A q \in DOMAIN admOracle : ~admOracle[q].result)
        => /\ admResp.replied /\ admResp.allowed
           /\ admResp.patches = <<>>
           /\ admResp.patchType = "absent"

\* an eligible pod with two containers was handled by the SnapHook handler,
\* the oracle answered false both times, and the pod was admitted unpatched
C5_Witness ==
    /\ admReq.handler = "snaphook"
    /\ Len(admReq.req.containers) = 2
    /\ Len(admOracle) = 2
    /\ \A q \in DOMAIN admOracle : ~admOracle[q].result
    /\ admResp.allowed /\ admResp.patches = <<>> /\ admResp.patchType = "absent"

-----------------------------------------------------------------------------
(* Properties of the oracle                                                *)

\* C6: the oracle is fail-closed: it never raises, and it answers true only
\* when a probe positively succeeded; a non-success status or a transport
\* error yields false
C6_OracleFailClosed ==
    orcOut.impl # "none" =>
        /\ ~orcOut.raised
        /\ orcOut.result => \E i \in DOMAIN orcIn.replies : orcIn.replies[i] = "200"

\* an HTTP 500 and a refused connection were both answered with false
C6_Witness ==
    /\ orcOut.impl = "pod"
    /\ \E i, j \in DOMAIN orcIn.replies :
          orcIn.replies[i] = "500" /\ orcIn.replies[j] = "refused"
    /\ \A i \in DOMAIN orcIn.replies : orcIn.replies[i] # "200"
    /\ ~orcOut.result /\ ~orcOut.raised

\* C8: for every 7-tuple the reference the oracle checks is, character for
\* character, the tag the codec generates for the same tuple
C8_OracleChecksCodecTag ==
    orcOut.impl # "none" =>
        LET gen == generate_image_tag(orcIn.host, orcIn.repo, orcIn.cluster, orcIn.namespace,
                                      orcIn.app, orcIn.digest, orcIn.hash)
        IN  ~gen.err => orcOut.ref = gen.val

-----------------------------------------------------------------------------
(* Properties of the cache                                                 *)

\* C7: for any pod template, the candidate tag computed at admission of a
\* replacement pod equals the tag under which the pipeline pushed the image
\* of a running pod of that template
C7_AdmissionTagEqualsPipelineTag ==
    (pipeRes.success /\ admitRes.done) =>
        /\ ~admitRes.err
        /\ admitRes.tag = pipeRes.image_tag

\* C9: the tag the pipeline commits and pushes equals the codec's generated
\* tag for the pod facts the pipeline derived, the whole
\* cluster-namespace-app segment lower-cased
C9_PipelineTagIsCodecTag ==
    pipeRes.success =>
        pipeRes.image_tag =
            generate_image_tag(CfgRegistry, CfgRepo, CfgCluster, tmpl.namespace,
                               pipeRes.app, pipeRes.digest, pipeRes.hash).val

-----------------------------------------------------------------------------
(* Properties of the pipeline                                              *)

\* the positions of a command in a sequence of commands run
RunsOf(tr, command) == {i \in DOMAIN tr : tr[i].cmd = command}

\* every run of the command `later` comes after a successful run of `earlier`
OnlyAfter(tr, earlier, later) ==
    \A j \in RunsOf(tr, later) : \E i \in RunsOf(tr, earlier) : i < j /\ tr[i].ok

AtMostOnce(tr) ==
    \A i, j \in DOMAIN tr : tr[i].cmd = tr[j].cmd => i = j

\* the actions of the phases after the checkpoint request
LaterPhaseCommands ==
    {"upload", "buildah_from", "buildah_add", "buildah_config", "buildah_commit",
     "buildah_push"}

\* the steps whose failure the code reports and survives: the lookup of the
\* service address (lines 113-122), the registry login (292-301) and the
\* removal of the build container (313-318)
ToleratedFailures == {"oc_get_svc", "buildah_login", "buildah_rm"}

\* C14 as stated: within one invocation each external action is attempted at
\* most once, and after the first failure of any phase or step no action of
\* a later phase (upload, build, commit, push) is executed
C14_NoActionAfterAnyFailure ==
    /\ AtMostOnce(pipeRes.trace)
    /\ \A i, j \in DOMAIN pipeRes.trace :
          (i < j /\ ~pipeRes.trace[i].ok) => pipeRes.trace[j].cmd \notin LaterPhaseCommands

\* C14 amended: within one invocation each external action is attempted at
\* most once, and after the first failure of any step other than the service
\* address lookup, the registry login and the removal of the build container
\* no external action is executed, except that removal after a failed add,
\* annotate or commit
C14_NoActionAfterFatalFailure ==
    /\ AtMostOnce(pipeRes.trace)
    /\ \A i, j \in DOMAIN pipeRes.trace :
          (i < j /\ ~pipeRes.trace[i].ok /\ pipeRes.trace[i].cmd \notin ToleratedFailures)
            => /\ pipeRes.trace[j].cmd = "buildah_rm"
               /\ pipeRes.trace[i].cmd \in {"buildah_add", "buildah_config", "buildah_commit"}
    /\ pipeRes.kubelet \in KubeletResponses \ {"items"} =>
          pipeRes.trace[Len(pipeRes.trace)].cmd = "checkpoint"

\* an invocation whose commit failed after a tolerated login failure: the
\* build container is removed and nothing else is run
C14_Witness ==
    /\ pipeRes.done /\ ~pipeRes.success
    /\ \E i, j \in DOMAIN pipeRes.trace :
          /\ i < j
          /\ pipeRes.trace[i].cmd = "buildah_login" /\ ~pipeRes.trace[i].ok
          /\ pipeRes.trace[j].cmd = "buildah_commit" /\ ~pipeRes.trace[j].ok
          /\ j + 1 = Len(pipeRes.trace)

\* C15: every pipeline entry point returns a structured result with
\* success=false and a message for any failure in any phase; no exception
\* leaves the pipeline function
C15_EntryPointsNeverRaise ==
    /\ entryRes.raised = "none"
    /\ (\E i \in DOMAIN entryRes.trace : ~entryRes.trace[i].ok) =>
          entryRes.success = "false" /\ entryRes.message
    /\ (pipeRes.done /\ pipeRes.failed # "none") =>
          ~pipeRes.success /\ pipeRes.message

\* C16: if the kubelet's checkpoint response is not JSON, or is JSON whose
\* items is missing or empty, the invocation returns a failed result and
\* runs neither the node upload nor the image build, commit or push
C16_BadKubeletResponseStops ==
    /\ pipeRes.kubelet \in KubeletResponses \ {"items"} =>
          /\ pipeRes.done /\ ~pipeRes.success /\ pipeRes.message
          /\ \A i \in DOMAIN pipeRes.trace : pipeRes.trace[i].cmd \notin LaterPhaseCommands
    /\ (/\ entryRes.fn = "checkpoint_container_kubelet"
        /\ entryRes.kubelet \in KubeletResponses \ {"items"}) =>
          /\ entryRes.raised = "none"
          /\ entryRes.success = "false" /\ entryRes.message
          /\ \A i \in DOMAIN entryRes.trace : entryRes.trace[i].cmd \notin LaterPhaseCommands

\* the kubelet answered with JSON that has no items, to the combined
\* pipeline and to the kubelet checkpoint flow
C16_Witness ==
    /\ pipeRes.kubelet = "no_items" /\ pipeRes.done
    /\ entryRes.fn = "checkpoint_container_kubelet" /\ entryRes.kubelet = "empty_items"

\* C17: if a required pod fact (pod name, namespace, node name, a container
\* and its name, app, pod-template-hash) is missing, the invocation fails
\* while extracting the pod facts, before any external call
C17_MissingFactFailsBeforeAnyCall ==
    (/\ pipeRes.pc # "ExtractPodFacts"
     /\ \/ IsNone(pipeRes.pod.name) \/ IsNone(pipeRes.pod.namespace)
        \/ IsNone(pipeRes.pod.nodeName)
        \/ pipeRes.pod.containers = <<>>
        \/ IsNone(pipeRes.pod.containers[1].name)
        \/ IsNone(pipeRes.pod.app) \/ IsNone(pipeRes.pod.hash))
      => /\ pipeRes.done /\ ~pipeRes.success /\ pipeRes.message
         /\ pipeRes.trace = <<>>

\* a pod spec without a node name, all labels present
C17_Witness ==
    /\ pipeRes.done
    /\ IsNone(pipeRes.pod.nodeName)
    /\ ~IsNone(pipeRes.pod.app) /\ ~IsNone(pipeRes.pod.hash)

\* the build container was created
BuildContainerCreated(tr) ==
    \E i \in DOMAIN tr : tr[i].cmd = "buildah_from" /\ tr[i].ok

\* every command but the removal of the build container succeeded
OnlyRemovalFailed(tr) ==
    \A i \in DOMAIN tr : ~tr[i].ok => tr[i].cmd = "buildah_rm"

\* C18: once the intermediate build container has been created, its removal
\* is attempted exactly once on every path, whether add, annotate and commit
\* succeed or fail, and a failed removal never changes the result
C18_RemovalAttemptedExactlyOnce ==
    /\ (pipeRes.done /\ BuildContainerCreated(pipeRes.trace)) =>
          /\ Cardinality(RunsOf(pipeRes.trace, "buildah_rm")) = 1
          /\ OnlyRemovalFailed(pipeRes.trace) => pipeRes.success
    /\ (/\ entryRes.fn = "create_and_push_checkpoint_container"
        /\ BuildContainerCreated(entryRes.trace)) =>
          /\ Cardinality(RunsOf(entryRes.trace, "buildah_rm")) = 1
          /\ OnlyRemovalFailed(entryRes.trace) => entryRes.raised = "none"

\* C19: an invocation that returns success=false has sent a progress event
\* "failed", and it is the last progress event of the invocation; an
\* invocation that returns success=true never sends "failed"
C19_FailedIsLastEvent ==
    /\ (pipeRes.done /\ ~pipeRes.success) =>
          /\ pipeRes.progress # <<>>
          /\ pipeRes.progress[Len(pipeRes.progress)] = "failed"
    /\ (pipeRes.done /\ pipeRes.success) =>
          \A i \in DOMAIN pipeRes.progress : pipeRes.progress[i] # "failed"

\* an invocation that failed at the push, after progress events of every
\* phase
C19_Witness ==
    /\ pipeRes.done /\ ~pipeRes.success
    /\ pipeRes.failed = "buildah_push"
    /\ Len(pipeRes.progress) > 1

-----------------------------------------------------------------------------
(* Properties of the admission decision's termination                      *)

\* C20: the admission decision always terminates with a response: every
\* external call it makes is bounded by a timeout, so a registry or an API
\* that never answers cannot keep a request pending for ever
C20_AdmissionAlwaysResponds ==
    (admCall.handler # "none") ~> (admCall.pc = "responded")

-----------------------------------------------------------------------------
(* Properties of the image tag                                             *)

\* C21: the image tag is a function of the inputs only: two invocations
\* with identical pod facts and identical registry, repository and cluster
\* configuration commit and push under the identical tag
C21_SameInputsSameTag ==
    \A i, j \in DOMAIN entryRes.pushed :
        entryRes.pushed[i].inputs = entryRes.pushed[j].inputs =>
           entryRes.pushed[i].image_tag = entryRes.pushed[j].image_tag

-----------------------------------------------------------------------------
(* Properties of the admission of an already mutated pod                   *)

\* C22: a request whose pod already carries the snap.weaversoft.io/mutated
\* label yields a response with no patch: the handler re-checks that the
\* snap label is present and the mutated label is absent
C22_MutatedPodNotPatchedAgain ==
    (admReq.handler = "snaphook" /\ admReq.req.labels.mutated # None) =>
        (admResp.replied /\ admResp.patches = <<>>)

-----------------------------------------------------------------------------
(* Properties of the image reference codec                                 *)

HasChar(s, ch) == \E i \in 1..Len(s) : s[i] = ch

\* the tuple whose tag was generated and parsed back
RoundTripDone == codec.op = "round_trip"

\* C23 (as stated): for every tuple whose values are non-empty and contain
\* no '/', no ':' and no '-', parse(generate(c)) returns exactly c
C23_RoundTrip ==
    (/\ RoundTripDone
     /\ \A f \in ComponentNames :
           /\ codec.c[f] # <<>>
           /\ ~HasChar(codec.c[f], "/") /\ ~HasChar(codec.c[f], ":")
           /\ ~HasChar(codec.c[f], "-"))
    => (~codec.parsed.err /\ codec.parsed.val = codec.c)

\* the values a round trip returns unchanged: non-empty, no '/', no ':', no
\* '-' in namespace, app and hash, no surrounding whitespace, and cluster,
\* namespace and app without upper-case letters
RoundTripDomain(c) ==
    /\ \A f \in ComponentNames :
          /\ c[f] # <<>>
          /\ ~HasChar(c[f], "/") /\ ~HasChar(c[f], ":")
          /\ c[f][1] \notin Whitespace /\ c[f][Len(c[f])] \notin Whitespace
    /\ \A f \in {"namespace", "app", "hash"} : ~HasChar(c[f], "-")
    /\ \A f \in {"cluster", "namespace", "app"} :
          \A i \in 1..Len(c[f]) : c[f][i] \notin UpperChars

\* C23 (amended): for every tuple of the round-trip domain,
\* parse(generate(c)) returns exactly c, all seven components
C23_RoundTripLowerTrimmed ==
    (RoundTripDone /\ RoundTripDomain(codec.c))
    => (~codec.parsed.err /\ codec.parsed.val = codec.c)

C23_Witness ==
    /\ RoundTripDone /\ RoundTripDomain(codec.c)
    /\ codec.c.cluster = <<"c","-","x">> /\ codec.c.digest = <<"d","-","1">>
    /\ codec.parsed.val = codec.c

\* a tag was generated from codec.c
Generated == codec.op \in {"generate", "round_trip"} /\ ~codec.generated.err

\* C24 (as stated): generate() lower-cases exactly the cluster-namespace-app
\* segment and leaves registry, repo, digest and hash unchanged: the tag is
\* registry/repo/lower(cluster-namespace-app):digest-hash
C24_LowerCasesSegmentOnly ==
    Generated =>
        codec.generated.val =
            codec.c.registry \o Slash \o codec.c.repo \o Slash
              \o Lower(codec.c.cluster \o Dash \o codec.c.namespace \o Dash \o codec.c.app)
              \o Colon \o codec.c.digest \o Dash \o codec.c.hash

\* C24 (amended): generate() trims every component, lower-cases exactly the
\* cluster-namespace-app segment and leaves registry, repo, digest and hash
\* otherwise unchanged; (Reg, Repo, C, N, A, d1, h1) yields
\* "Reg/Repo/c-n-a:d1-h1"
C24_TrimsAndLowerCasesSegmentOnly ==
    /\ Generated =>
          codec.generated.val =
            Strip(codec.c.registry) \o Slash \o Strip(codec.c.repo) \o Slash
              \o Lower(Strip(codec.c.cluster) \o Dash \o Strip(codec.c.namespace)
                         \o Dash \o Strip(codec.c.app))
              \o Colon \o Strip(codec.c.digest) \o Dash \o Strip(codec.c.hash)
    /\ (/\ codec.op \in {"generate", "round_trip"}
        /\ codec.c = [registry |-> <<"R","e","g">>, repo |-> <<"R","e","p","o">>,
                      cluster |-> <<"C">>, namespace |-> <<"N">>, app |-> <<"A">>,
                      digest |-> <<"d","1">>, hash |-> <<"h","1">>])
       => codec.generated =
            [err |-> FALSE,
             val |-> <<"R","e","g","/","R","e","p","o","/","c","-","n","-","a",":",
                       "d","1","-","h","1">>]

C24_Witness ==
    /\ Generated
    /\ codec.c.registry = <<"R","e","g">> /\ codec.c.cluster = <<" ","c">>
    /\ codec.c.app = <<"A">> /\ codec.c.digest = <<"D","1">>
    /\ codec.generated.val =
         <<"R","e","g","/","R","e","p","o","/","c","-","n","-","a",":","D","1","-","h","1">>

\* C25: generate() fails whenever one of the seven components is empty after
\* trimming whitespace, whitespace-only values included; it never returns a
\* tag with an empty component
C25_EmptyAfterTrimFails ==
    (/\ codec.op \in {"generate", "round_trip"}
     /\ \E f \in ComponentNames : \A i \in 1..Len(codec.c[f]) : codec.c[f][i] \in Whitespace)
    => codec.generated.err

\* position of the last ch in s, 0 if there is none
LastIndex(s, ch) ==
    IF HasChar(s, ch) THEN CHOOSE i \in 1..Len(s) : s[i] = ch /\ \A j \in (i + 1)..Len(s) : s[j] # ch
    ELSE 0

CountChar(s, ch) == Cardinality({i \in 1..Len(s) : s[i] = ch})

\* s cut at the last ch: what is before it and what is after it
BeforeLast(s, ch) == SubSeq(s, 1, LastIndex(s, ch) - 1)
BehindLast(s, ch) == SubSeq(s, LastIndex(s, ch) + 1, Len(s))

\* the seven pieces the parse documentation names, cut from the tag at the
\* last ':', the last two '/' before it, the last two '-' of the third
\* segment and the last '-' of the tag part
Pieces(t) ==
    LET image_part == BeforeLast(t, ":")
        tag_part   == BehindLast(t, ":")
        third      == BehindLast(image_part, "/")
        front      == BeforeLast(image_part, "/")
    IN  [registry  |-> BeforeLast(front, "/"),
         repo      |-> BehindLast(front, "/"),
         cluster   |-> BeforeLast(BeforeLast(third, "-"), "-"),
         namespace |-> BehindLast(BeforeLast(third, "-"), "-"),
         app       |-> BehindLast(third, "-"),
         digest    |-> BeforeLast(tag_part, "-"),
         hash      |-> BehindLast(tag_part, "-")]

\* the segment counts parse requires: a ':', three '/'-segments before the
\* last ':', three '-'-tokens in the third of them, two '-'-tokens behind
\* the last ':'
RequiredCounts(t) ==
    /\ HasChar(t, ":")
    /\ CountChar(BeforeLast(t, ":"), "/") >= 2
    /\ CountChar(BehindLast(BeforeLast(t, ":"), "/"), "-") >= 2
    /\ CountChar(BehindLast(t, ":"), "-") >= 1

Parsed == codec.op = "parse"

ExampleComponents ==
    [registry |-> <<"r","e","g",".","i","o",":","5","0","0","0">>,
     repo |-> <<"r","e","p","o">>, cluster |-> <<"c","r","c">>,
     namespace |-> <<"d","e","f","a","u","l","t">>, app |-> <<"a","p","p">>,
     digest |-> <<"a","b","c","d","e","f","1","2","3","4","5","6">>,
     hash |-> <<"5","f","9","c","8","d">>]

\* C26 (as stated): for every tag with the required segment counts parse()
\* returns the pieces cut at the last ':', the last two '/' of the image part
\* (registry: everything before), the last two '-' of the third segment
\* (cluster: everything before) and the last '-' of the tag part
C26_ParseReturnsPieces ==
    (Parsed /\ RequiredCounts(codec.image_tag))
    => (~codec.parsed.err /\ codec.parsed.val = Pieces(codec.image_tag))

\* C26 (amended): for every tag with the required segment counts and no
\* empty piece, parse() returns those pieces, each with its surrounding
\* whitespace trimmed; the example tag yields the documented components
C26_ParseReturnsTrimmedPieces ==
    /\ (/\ Parsed /\ RequiredCounts(codec.image_tag)
        /\ \A f \in ComponentNames : Pieces(codec.image_tag)[f] # <<>>)
       => /\ ~codec.parsed.err
          /\ codec.parsed.val =
               [f \in ComponentNames |-> Strip(Pieces(codec.image_tag)[f])]
    /\ (Parsed /\ codec.image_tag = ExampleTag)
       => codec.parsed = [err |-> FALSE, val |-> ExampleComponents]

C26_Witness ==
    /\ Parsed /\ ~codec.parsed.err
    /\ codec.image_tag = <<"r",":","5","/","p","/","c","-","x","-","n","-","a",":","d","-","e","-","h">>
    /\ codec.parsed.val.registry = <<"r",":","5">>
    /\ codec.parsed.val.cluster = <<"c","-","x">>
    /\ codec.parsed.val.digest = <<"d","-","e">>

\* C27: parse() fails, and returns no components, for any input that has no
\* ':', fewer than 3 '/'-segments in the image part, fewer than 3 '-'-tokens
\* in the third segment, or fewer than 2 '-'-tokens in the tag part
C27_MalformedTagFails ==
    (Parsed /\ ~RequiredCounts(codec.image_tag))
    => (codec.parsed.err /\ codec.parsed.val = NoComponents)

C27_Witness ==
    /\ Parsed /\ codec.parsed.err
    /\ codec.image_tag = <<"r","/","p","/","n","-","a",":","d","-","h">>

-----------------------------------------------------------------------------
(* Properties of the digest resolver                                       *)

\* the status image id carries a digest: it has an '@' or a "sha256:"
StatusHasDigest ==
    /\ resolver.hasContainers /\ resolver.imageID # None
    /\ (HasChar(resolver.imageID[1], "@") \/ Contains(resolver.imageID[1], Sha256))

\* the spec image is pinned by digest
SpecHasDigest == resolver.hasContainers /\ HasChar(resolver.image, "@")

\* the remote inspection of the spec image reports a digest
InspectionHasDigest ==
    resolver.hasContainers /\ resolver.image # <<>> /\ resolver.outcome = "digest"

\* C28: the digest resolver never raises; when neither the container
\* status, a digest-pinned spec image nor the remote inspection yields a
\* digest (the inspection failing or its output unparsable included), it
\* returns the literal "unknown"
C28_ResolverNeverRaises ==
    resolver.called =>
        /\ ~resolver.raised
        /\ (~StatusHasDigest /\ ~SpecHasDigest /\ ~InspectionHasDigest)
             => resolver.digest = <<"u","n","k","n","o","w","n">>

C28_Witness ==
    /\ resolver.called /\ resolver.hasContainers
    /\ resolver.imageID = Some(<<"d","k","r",":","/","/","a","b","c">>)
    /\ resolver.image = ImageTagged
    /\ resolver.outcome = "run_raises"
    /\ resolver.skopeo /\ ~resolver.raised
    /\ resolver.digest = <<"u","n","k","n","o","w","n">>

\* C29: for a status image id of the form repo@sha256:<hex> or
\* scheme://sha256:<hex> the resolver returns exactly the first 12
\* characters of <hex>, and the remote inspection is consulted only when
\* the status and the spec yield no digest
C29_FirstTwelveHexOfImageId ==
    /\ (/\ resolver.called /\ resolver.hasContainers
        /\ \E before \in {<<"d","k","r",":","/","/">>, <<"c","t","d",":","/","/">>,
                          <<"r","/","n","g","x","@">>,
                          <<"d","k","r",":","/","/","r","/","n","g","x","@">>} :
              resolver.imageID = Some(before \o <<"s","h","a","2","5","6",":">> \o Hex14))
       => /\ resolver.digest = <<"0","1","2","3","4","5","6","7","8","9","a","b">>
          /\ ~resolver.skopeo
    /\ (resolver.called /\ resolver.skopeo) => (~StatusHasDigest /\ ~SpecHasDigest)

C29_Witness ==
    /\ resolver.called
    /\ resolver.imageID = Some(<<"c","t","d",":","/","/">> \o FullDigest)
    /\ resolver.image = ImageTagged /\ resolver.outcome = "digest"
    /\ resolver.digest = <<"0","1","2","3","4","5","6","7","8","9","a","b">>
    /\ ~resolver.skopeo

-----------------------------------------------------------------------------
(* Properties of the oracle's credentials                                  *)

\* C30: the oracle resolves credentials in strict priority order: the
\* stored credential of the host when one is usable (a user name or a
\* password is set), otherwise the environment credential when set,
\* otherwise anonymous access; the environment credential is never used
\* when a usable stored credential for the host exists
C30_CredentialPriority ==
    orcOut.impl # "none" =>
        /\ orcIn.stored \in {"user", "pass", "both"} => orcIn.creds = "stored"
        /\ (orcIn.stored \in {"none", "empty"} /\ orcIn.env = "set") => orcIn.creds = "env"
        /\ (orcIn.stored \in {"none", "empty"} /\ orcIn.env = "unset")
              => orcIn.creds = "anonymous"

-----------------------------------------------------------------------------
(* Properties of the flavor detection                                      *)

\* C31: once the flavor of a host was detected, every later existence check
\* for that host in the same process reuses it and sends no further
\* detection probe
C31_FlavorDetectedOncePerHost ==
    \A i, j \in DOMAIN detect :
        (i < j /\ detect[i].host = detect[j].host) =>
            (detect[j].probes = 0 /\ detect[j].type = detect[i].type)

-----------------------------------------------------------------------------
(* Properties of the configuration store                                   *)

\* C32: creating or updating a cache binding whose cluster entry or registry
\* entry does not exist fails with success=false and writes nothing; every
\* binding that is written references a cluster and a registry that exist
\* when it is written
C32_BindingsReferenceExistingEntries ==
    [][ /\ (/\ cfgRes'.op \in {"create_cluster_cache", "update_cluster_cache"}
            /\ \/ cfgRes'.cluster \notin cfgStore.clusters
               \/ cfgRes'.registry \notin cfgStore.registries)
           => (~cfgRes'.success /\ cfgStore' = cfgStore)
        /\ \A c \in ClusterNames :
             (/\ cfgStore'.clusterCache[c] # cfgStore.clusterCache[c]
              /\ cfgStore'.clusterCache[c] # NoBinding)
             => /\ c \in cfgStore'.clusters
                /\ cfgStore'.clusterCache[c].registry \in cfgStore'.registries ]_vars

C32_Witness ==
    /\ cfgRes.op = "update_cluster_cache" /\ ~cfgRes.success
    /\ cfgRes.cluster \in cfgStore.clusters
    /\ cfgRes.registry \notin cfgStore.registries
    /\ cfgStore.clusterCache[cfgRes.cluster] # NoBinding

\* C33: when invocations for events of the same pod UID interleave, a second
\* guard-passing event being handled while the first invocation is suspended
\* inside the pipeline call, the pipeline is still triggered at most once for
\* that UID, so no two invocations for it are ever in flight together
C33_InterleavedAtMostOnce ==
    \A u \in UIDs :
        /\ watcherCalls[u] <= 1
        /\ operatorCalls[u] <= 1
        /\ Cardinality({i \in DOMAIN inflight : inflight[i].uid = u}) <= 1

\* C34: a pod that the admission decision has mutated, carrying the mutated
\* label, never triggers the pipeline: the handlers process only events of
\* pods that carry the snap label and do not carry the mutated label
C34_MutatedPodNeverTriggers ==
    /\ [](/\ stream.labels.mutated # None => (~stream.delivered /\ ~stream.triggered)
          /\ stream.delivered => (stream.labels.snap # None /\ stream.labels.mutated = None)
          /\ stream.triggered => stream.delivered)
    /\ [][stream'.labels.mutated # None =>
            (operatorCalls' = operatorCalls /\ watcherCalls' = watcherCalls
                /\ deletedPods' = deletedPods /\ lastEvt' = lastEvt)]_vars

\* the watch carried an event of a pod with snap = "true" and mutated =
\* "true" under a running operator, and no handler ran for it
C34_Witness ==
    /\ stream.handler = "operator"
    /\ operator.set
    /\ stream.labels = [snap |-> Some(TrueStr), mutated |-> Some(TrueStr)]
    /\ ~stream.delivered
    /\ nEvents = 2
    /\ \A u \in UIDs : operatorCalls[u] = 0

\* C35: every JSON Patch emitted by the admission decision applies without
\* error to the admitted pod: for a pod matching the object selector (snap
\* label present, mutated label absent) each "replace" operation targets a
\* path that exists in that pod
C35_ReplaceTargetsExist ==
    (admResp.replied /\ ObjectSelectorMatches(admReq.req)) =>
        \A i \in DOMAIN admResp.patches : ReplaceTargetExists(admReq.req, admResp.patches[i])

\* C36: in the SnapWatcher handler a pod UID is recorded in the dedup set
\* before the checkpoint request is issued and is never removed afterwards;
\* a pod whose pipeline run fails, or whose request could not be sent at all,
\* is not triggered again for the rest of the process lifetime
C36_RecordedBeforeRequestAndKept ==
    [][/\ alreadyCheckpointed \subseteq alreadyCheckpointed'
       /\ \A u \in alreadyCheckpointed : watcherCalls'[u] = watcherCalls[u]
       /\ (lastEvt'.handler = "watcher" /\ lastEvt'.outcome # "none") =>
            /\ lastEvt'.evt.uid \in alreadyCheckpointed'
            /\ lastEvt'.steps # <<>> /\ lastEvt'.steps[1] = "add_uid"
            /\ \A i \in DOMAIN lastEvt'.steps : lastEvt'.steps[i] = "post" => i > 1]_vars

\* a guard-passing event of a pod was skipped by the dedup although no request
\* had ever been sent for that pod: the earlier event found no token
C36_Witness ==
    /\ lastEvt.handler = "watcher"
    /\ WatcherGuard(lastEvt.evt)
    /\ lastEvt.outcome = "none"
    /\ ~lastEvt.triggered
    /\ lastEvt.evt.uid \in alreadyCheckpointed
    /\ watcherCalls[lastEvt.evt.uid] = 0
    /\ nEvents = 2

\* C37: after any sequence of operator start, stop, create-watcher and
\* auto-start operations at most one watch loop (kopf run thread) is active
\* in the process, so a pod event is delivered to at most one handler
\* invocation
C37_AtMostOneWatchLoop ==
    /\ [](ctl.threads <= 1)
    /\ [][\A u \in UIDs : operatorCalls'[u] <= operatorCalls[u] + 1]_vars

\* C38: stopping and restarting a watcher does not change its effective
\* auto-delete setting: the operator built for a watcher has the stored
\* auto_delete_pod of that watcher, and a watcher stored with
\* auto_delete_pod=false never causes a pod to be deleted
C38_AutoDeleteSettingKept ==
    /\ [](\A n \in WatcherNames :
            (operator.set /\ ctl.owner = n /\ ctl.configs[n].exists) =>
                operator.auto_delete_pod = ctl.configs[n].auto_delete_pod)
    /\ [][\A n \in WatcherNames :
            (ctl.owner = n /\ ctl.configs[n].exists /\ ~ctl.configs[n].auto_delete_pod) =>
                deletedPods' = deletedPods]_vars

\* C39: whenever a watcher's stored status is "running", the operator the
\* pod-event handler dispatches to is that watcher's own instance, not absent
\* and not another watcher's; at most one watcher is recorded as running
C39_RunningWatcherOwnsOperator ==
    /\ \A n \in WatcherNames :
          (ctl.configs[n].exists /\ ctl.configs[n].status = "running") =>
              (operator.set /\ ctl.owner = n)
    /\ Cardinality({n \in WatcherNames :
                       ctl.configs[n].exists /\ ctl.configs[n].status = "running"}) <= 1

\* C40: the shared listener dispatches an admission request only to the
\* handler of the hook the request designates by webhook configuration name
\* or webhook name, never to another registered hook's handler, also for
\* hook names that contain '-' and after the designated hook was unregistered
C40_DispatchOnlyToDesignatedHook ==
    (hooks.handled /\ hooks.request.form \in {"configurationName", "webhookName"}
        /\ hooks.handler # None)
        => hooks.handler = Some(hooks.request.designated)

====
